---- MODULE Spec2Model ----
(***************************************************************************)
(* A model of the token burner: the rate-limit decision engine             *)
(* (lib/threshold.js), the task queue manager (lib/task-manager.js), the   *)
(* history store (lib/history.js), the executor (lib/executor.js), the     *)
(* cycle controller (bin/burn.js) and the watch loop (lib/scheduler.js).   *)
(*                                                                         *)
(* Optional JavaScript values (undefined / null) are sequences of length   *)
(* at most one: << >> is "absent" and <<v>> is "present with value v".     *)
(* Utilizations and thresholds are hundredths (0.80 is 80).  Amounts of    *)
(* money are thousandths of a dollar (15.00 is 15000).                     *)
(***************************************************************************)
EXTENDS Integers, Sequences, FiniteSets, TLC

VARIABLES
    mode,             \* "once" | "watch", or the function a run applies alone:
                      \* "pick" | "eval" | "billing" | "quiet" | "update"
    args,             \* optional arguments (taskId, status) of updateTaskStatus
    dryRun,           \* args.dryRun
    config,           \* the thresholds or quiet hours of the config (optional)
    wpc,              \* position of main() / watchLoop
    running,          \* watchLoop's `running` flag (cleared by SIGINT/SIGTERM)
    sleepLeft,        \* 5-second slices left of the current interval sleep
    cycles,           \* number of cycles started so far
    cpc,              \* position of runCycle
    rateLimits,       \* optional snapshot returned by fetchRateLimits
    decision,         \* optional Decision returned by evaluate
    availableBudget,  \* optional budget ceiling handed to pickTask
    tasksFile,        \* the queue file: [state, tasks]
    taskData,         \* the queue loaded by the cycle (in memory)
    task,             \* optional task selected by pickTask
    result,           \* optional result of executeTask
    execInFlight,     \* child processes spawned by executeTask and not ended
    historyFile,      \* the history file: [state, records]
    reports,          \* report artifacts on disk: set of <<taskId, kind>>
    context,          \* run-context artifact per task id: optional summary
    prompt,           \* optional prompt executeTask hands to the CLI
    writes,           \* artifact writes executeTask has attempted, in order
    error,            \* optional error runCycle has thrown
    warned,           \* the files whose failed write the cycle has logged
    child,            \* optional way the child of executeTask has ended
    usage,            \* billing-block telemetry: [block, weeklyCost]
    now,              \* local wall-clock time, in minutes since midnight
    quiet,            \* optional return value of isQuietHours
    diskFaults,       \* the reports, context and history stores can reject a write
    cli,              \* the ways the claude CLI of this machine can end
    permissions,      \* .claude/settings.local.json of the project directory
                      \* (file) and what setupTaskPermissions found there
                      \* before it wrote (original, optional)
    outside           \* what was done to the process and its files from outside,
                      \* in order: the kind ("kill" | "edit"), where runCycle was,
                      \* and its task

vars == <<mode, args, dryRun, config, wpc, running, sleepLeft, cycles, cpc, rateLimits,
          decision, availableBudget, tasksFile, taskData, task, result,
          execInFlight, historyFile, reports, context, prompt, writes, error,
          warned, child,
          usage, now, quiet, diskFaults, cli, permissions, outside>>

----------------------------------------------------------------------------
(* Bounds of the model.                                                    *)

MaxTasks == 2         \* tasks in the queue file of a cycle run
MaxPickTasks == 2     \* tasks in a queue handed to pickTask alone
MaxWindows == 2       \* windows in a snapshot handed to evaluate alone
MaxCycles == 2        \* cycles a watch loop starts before the model stops it
SleepSlices == 1      \* 5-second slices in one interval sleep
MaxHistory == 2       \* records in a history file handed to appendRecord
MaxKills == 1         \* times the process is killed and started again
MaxEdits == 1         \* times the queue file is edited while a task executes
MaxUpdateTasks == 2   \* tasks in a queue handed to updateTaskStatus alone
MaxDrainCycles == MaxTasks + 1
                      \* cycles a watch loop starts on a queue it is to drain
MaxExtraChars == 1    \* characters an output is longer than a limit of the code

(* Program constants.                                                      *)

DefaultPriority == 999          \* a.priority ?? 999
MaxContextChars == 4000         \* text.slice(0, 4000)
MaxErrorChars == 1000           \* (error || 'unknown').slice(0, 1000)
MaxRawChars == 5000             \* raw.slice(0, 5000)
UnknownChars == 7               \* 'unknown'
TimestampChars == 24            \* new Date().toISOString()
\* `**Last run:** ${ts} — ✅ SUCCESS\n\n`
SuccessHeaderChars == 14 + TimestampChars + 12 + 2
\* `**Last run:** ${ts} — ❌ FAILED\n**Error:** `
FailureHeaderChars == 14 + TimestampChars + 11 + 1 + 11
DefaultMaxUtilization == 80     \* t.maxUtilization ?? 0.80
RateLimitedStatus == 429        \* rateLimits.statusCode === 429
OkStatus == 200
DefaultMinRemainingMinutes == 60    \* t.minRemainingMinutes ?? 60
DefaultMaxBlockCostUSD == 15000     \* t.maxBlockCostUSD ?? 15.0
DefaultWeeklyBudgetUSD == 100000    \* t.weeklyBudgetUSD ?? 100.0
MinutesPerDay == 24 * 60            \* now.getHours() * 60 + now.getMinutes()

Statuses == {"off", "on", "running", "done", "failed"}
WindowNames == {"5h", "7d", "7d_sonnet"}
WindowStatuses == {<< >>, <<"allowed">>, <<"rejected">>}
Utilizations == {<< >>, <<0>>, <<50>>, <<80>>, <<90>>}

----------------------------------------------------------------------------
(* Helpers on optional values and sequences.                               *)

Some(o) == o[1]

OrElse(o, d) == IF o = << >> THEN d ELSE o[1]

(* Array.prototype.sort with comparator (a, b) => key(a) - key(b), on the   *)
(* indices of the array: keys[i] is the key of element i.  The sort is     *)
(* stable, so an index is placed behind every index whose key is not       *)
(* larger.                                                                 *)
RECURSIVE InsertStable(_, _, _)
InsertStable(i, perm, keys) ==
    IF perm = << >> THEN <<i>>
    ELSE IF keys[Head(perm)] <= keys[i]
         THEN <<Head(perm)>> \o InsertStable(i, Tail(perm), keys)
         ELSE <<i>> \o perm

RECURSIVE SortPerm(_, _)
SortPerm(n, keys) ==
    IF n = 0 THEN << >> ELSE InsertStable(n, SortPerm(n - 1, keys), keys)

SortBy(s, keys) ==
    LET perm == SortPerm(Len(s), keys) IN [i \in 1..Len(s) |-> s[perm[i]]]

----------------------------------------------------------------------------
(* lib/task-manager.js                                                     *)

\* Mutant: a missing priority sorts first.
PriorityOfMut(t) == OrElse(t.priority, 0)

\* (a.priority ?? 999)
PriorityOf(t) == OrElse(t.priority, DefaultPriority)

\* Mutant: every task that is not off is eligible.
IsOnMut(t) == t.status # "off"

\* Mutant: a task left 'running' is eligible again.
IsOnOrRunning(t) == t.status \in {"on", "running"}

\* .filter(t => t.status === 'on')
IsOn(t) == t.status = "on"

\* t.maxBudgetUSD && t.maxBudgetUSD > availableBudget  (false when either
\* side is undefined: a comparison with undefined is false)
OverBudget(t, budget) ==
    /\ t.maxBudgetUSD # << >>
    /\ Some(t.maxBudgetUSD) # 0
    /\ budget # << >>
    /\ Some(t.maxBudgetUSD) > Some(budget)

Candidates(tasks, budget) ==
    LET Fits(t) == ~OverBudget(t, budget)
        kept == SelectSeq(SelectSeq(tasks, IsOn), Fits)
    IN SortBy(kept, [i \in 1..Len(kept) |-> PriorityOf(kept[i])])

\* Mutant: the last of the sorted candidates is taken.
pickTaskLast(tasks, budget) ==
    LET c == Candidates(tasks, budget)
    IN IF c = << >> THEN << >> ELSE <<c[Len(c)]>>

\* candidates[0] || null
pickTask(tasks, budget) ==
    LET c == Candidates(tasks, budget)
    IN IF c = << >> THEN << >> ELSE <<c[1]>>

----------------------------------------------------------------------------
(* lib/threshold.js, the rate-limit decision engine.  A snapshot is        *)
(* [statusCode, windows, claim]: windows is Object.entries(windows) in     *)
(* its enumeration order, each entry [name, status, utilization], and      *)
(* claim is meta.representativeClaim.  The reason string is modelled by    *)
(* the check that produced it and, in field resets, by the reset time it   *)
(* names.  A window of which the response gave a reset time has a field    *)
(* reset, on the scale of the clock `now` (in minutes).                    *)

\* t.maxUtilization ?? 0.80
MaxUtil(cfg) == OrElse(cfg.maxUtilization, DefaultMaxUtilization)

\* (a.utilization ?? 0)
UtilOf(w) == OrElse(w.utilization, 0)

\* data.status && data.status !== 'allowed'
IsBlocked(w) == w.status # << >> /\ Some(w.status) # "allowed"

\* bindingName && windows[bindingName]
HasDesignated(s) ==
    /\ s.claim # << >>
    /\ \E i \in 1..Len(s.windows) : s.windows[i].name = Some(s.claim)

\* Mutant: the comparator is a - b, the lowest utilization sorts first.
SortedByUtilizationMut(ws) == SortBy(ws, [i \in 1..Len(ws) |-> UtilOf(ws[i])])

\* Object.entries(windows).sort(([, a], [, b]) =>
\*     (b.utilization ?? 0) - (a.utilization ?? 0))
SortedByUtilization(ws) == SortBy(ws, [i \in 1..Len(ws) |-> 0 - UtilOf(ws[i])])

\* activeWindow / activeWindowName
ActiveWindow(s) ==
    IF HasDesignated(s)
    THEN s.windows[CHOOSE i \in 1..Len(s.windows) : s.windows[i].name = Some(s.claim)]
    ELSE SortedByUtilization(s.windows)[1]

\* Mutant: the comparison is strict.
WellUsedMut(util, maxUtil) == util > maxUtil

\* util >= maxUtil
WellUsed(util, maxUtil) == util >= maxUtil

\* activeWindow.reset, undefined if the response named no reset time
ResetOf(w) == IF "reset" \in DOMAIN w THEN <<w.reset>> ELSE << >>

\* formatDuration(ms), on whole minutes (totalMin = Math.ceil(ms / 60000))
formatDuration(totalMin) ==
    IF totalMin <= 0 THEN <<"now">>
    ELSE IF totalMin < 60 THEN <<"in", totalMin, "m">>
    ELSE LET h == totalMin \div 60
             m == totalMin % 60
         IN IF h < 24 THEN <<"in", h, "h", m, "m">>
            ELSE <<"in", h \div 24, "d", h % 24, "h">>

\* resetInfo: if (activeWindow.reset) { resetMs = activeWindow.reset * 1000
\* - Date.now(); if (resetMs > 0) resetInfo = `, resets ${formatDuration(resetMs)}` }
resetInfo(w, clock) ==
    IF ResetOf(w) = << >> \/ ResetOf(w) = <<0>> THEN << >>
    ELSE IF Some(ResetOf(w)) - clock > 0
         THEN <<formatDuration(Some(ResetOf(w)) - clock)>>
         ELSE << >>

Skip(why) ==
    [shouldRun |-> FALSE, reason |-> why, bindingWindow |-> << >>,
     utilization |-> << >>, resets |-> << >>]

\* Mutant: the loop keeps the last blocked window instead of returning.
LastBlocked(ws) ==
    CHOOSE k \in 1..Len(ws) :
        /\ IsBlocked(ws[k])
        /\ \A j \in (k + 1)..Len(ws) : ~IsBlocked(ws[j])

\* for (const [name, data] of Object.entries(windows)) { if (...) return ... }
FirstBlocked(ws) ==
    CHOOSE k \in 1..Len(ws) :
        /\ IsBlocked(ws[k])
        /\ \A j \in 1..(k - 1) : ~IsBlocked(ws[j])

BlockedDecision(w) ==
    [shouldRun |-> FALSE, reason |-> "window_blocked",
     bindingWindow |-> <<w.name>>, utilization |-> w.utilization,
     resets |-> << >>]

\* The decision of the utilization check; Date.now() is the clock `now`.
ThresholdDecision(s, cfg) ==
    LET active == ActiveWindow(s)
        util == UtilOf(active)
    IN IF WellUsed(util, MaxUtil(cfg))
       THEN [shouldRun |-> FALSE, reason |-> "well_used",
             bindingWindow |-> <<active.name>>, utilization |-> <<util>>,
             resets |-> << >>]
       ELSE [shouldRun |-> TRUE, reason |-> "capacity_available",
             bindingWindow |-> <<active.name>>, utilization |-> <<util>>,
             resets |-> resetInfo(active, now)]

\* Mutant: the blocked-window check runs before the 429 check.
evaluateBlockedFirst(rl, cfg) ==
    IF rl = << >> THEN Skip("fetch_failed")
    ELSE LET s == Some(rl) IN
    IF \E i \in 1..Len(s.windows) : IsBlocked(s.windows[i])
    THEN BlockedDecision(s.windows[FirstBlocked(s.windows)])
    ELSE IF s.statusCode = RateLimitedStatus THEN Skip("rate_limited")
    ELSE IF Len(s.windows) = 0 THEN Skip("no_windows")
    ELSE ThresholdDecision(s, cfg)

\* The check `if (!activeWindow)` cannot fire: windows is not empty there,
\* so sorted[0] exists.
evaluate(rl, cfg) ==
    IF rl = << >> THEN Skip("fetch_failed")
    ELSE LET s == Some(rl) IN
    IF s.statusCode = RateLimitedStatus THEN Skip("rate_limited")
    ELSE IF Len(s.windows) = 0 THEN Skip("no_windows")
    ELSE IF \E i \in 1..Len(s.windows) : IsBlocked(s.windows[i])
    THEN BlockedDecision(s.windows[FirstBlocked(s.windows)])
    ELSE ThresholdDecision(s, cfg)

----------------------------------------------------------------------------
(* lib/threshold.js, the billing-block decision engine.  A Decision is     *)
(* [shouldRun, reason, availableBudget]; the reason is the tag of the      *)
(* return statement that produced it.                                      *)

Min(a, b) == IF a <= b THEN a ELSE b

\* Math.round(x * 100) / 100.  Math.round takes a half up; on an amount that
\* ends in exactly half a cent the binary fraction decides, so the inputs of
\* the model keep clear of these.
RoundToCents(m) == ((m + 5) \div 10) * 10

\* Mutant: a minute short of the minimum still passes.
TooLittleTimeMut(remainingMinutes, minRemaining) == remainingMinutes < minRemaining - 1

\* block.remainingMinutes < minRemaining
TooLittleTime(remainingMinutes, minRemaining) == remainingMinutes < minRemaining

\* Mutant: a block a thousandth over the maximum still passes.
BlockWellUsedMut(totalCost, maxBlockCost) == totalCost > maxBlockCost + 1

\* block.totalCost > maxBlockCost
BlockWellUsed(totalCost, maxBlockCost) == totalCost > maxBlockCost

\* weeklyCost >= weeklyBudget
WeekSpent(weeklyCost, weeklyBudget) == weeklyCost >= weeklyBudget

\* getWeeklyCost: the rounded sum of the costs of the week's blocks; 0 from
\* the catch block if ccusage fails, times out or prints no JSON.
getWeeklyCost(outcome) ==
    IF outcome = << >> THEN 0 ELSE RoundToCents(Some(outcome))

BillingSkip(why) == [shouldRun |-> FALSE, reason |-> why, availableBudget |-> 0]

\* Mutant: a skip for the weekly budget reports what the block has left.
evaluateBillingLeaky(block, weeklyCost, cfg) ==
    LET minRemaining == OrElse(cfg.minRemainingMinutes, DefaultMinRemainingMinutes)
        maxBlockCost == OrElse(cfg.maxBlockCostUSD, DefaultMaxBlockCostUSD)
        weeklyBudget == OrElse(cfg.weeklyBudgetUSD, DefaultWeeklyBudgetUSD)
    IN
    IF block = << >> THEN BillingSkip("no_block")
    ELSE LET b == Some(block)
             fromWeekly == weeklyBudget - weeklyCost
             fromBlock == maxBlockCost - b.totalCost
         IN
    IF TooLittleTime(b.remainingMinutes, minRemaining) THEN BillingSkip("too_little_time")
    ELSE IF BlockWellUsed(b.totalCost, maxBlockCost) THEN BillingSkip("block_well_used")
    ELSE IF WeekSpent(weeklyCost, weeklyBudget)
    THEN [shouldRun |-> FALSE, reason |-> "week_spent",
          availableBudget |-> RoundToCents(fromBlock)]
    ELSE [shouldRun |-> TRUE, reason |-> "block_underused",
          availableBudget |-> RoundToCents(Min(fromWeekly, fromBlock))]

\* Mutant: the weekly budget is checked before the block.
evaluateBillingWeekFirst(block, weeklyCost, cfg) ==
    LET minRemaining == OrElse(cfg.minRemainingMinutes, DefaultMinRemainingMinutes)
        maxBlockCost == OrElse(cfg.maxBlockCostUSD, DefaultMaxBlockCostUSD)
        weeklyBudget == OrElse(cfg.weeklyBudgetUSD, DefaultWeeklyBudgetUSD)
    IN
    IF block = << >> THEN BillingSkip("no_block")
    ELSE LET b == Some(block)
             fromWeekly == weeklyBudget - weeklyCost
             fromBlock == maxBlockCost - b.totalCost
         IN
    IF WeekSpent(weeklyCost, weeklyBudget) THEN BillingSkip("week_spent")
    ELSE IF TooLittleTime(b.remainingMinutes, minRemaining) THEN BillingSkip("too_little_time")
    ELSE IF BlockWellUsed(b.totalCost, maxBlockCost) THEN BillingSkip("block_well_used")
    ELSE [shouldRun |-> TRUE, reason |-> "block_underused",
          availableBudget |-> RoundToCents(Min(fromWeekly, fromBlock))]

\* evaluate({ block, weeklyCost, config }) of the billing-block model
evaluateBilling(block, weeklyCost, cfg) ==
    LET minRemaining == OrElse(cfg.minRemainingMinutes, DefaultMinRemainingMinutes)
        maxBlockCost == OrElse(cfg.maxBlockCostUSD, DefaultMaxBlockCostUSD)
        weeklyBudget == OrElse(cfg.weeklyBudgetUSD, DefaultWeeklyBudgetUSD)
    IN
    IF block = << >> THEN BillingSkip("no_block")
    ELSE LET b == Some(block)
             fromWeekly == weeklyBudget - weeklyCost
             fromBlock == maxBlockCost - b.totalCost
         IN
    IF TooLittleTime(b.remainingMinutes, minRemaining) THEN BillingSkip("too_little_time")
    ELSE IF BlockWellUsed(b.totalCost, maxBlockCost) THEN BillingSkip("block_well_used")
    ELSE IF WeekSpent(weeklyCost, weeklyBudget) THEN BillingSkip("week_spent")
    ELSE [shouldRun |-> TRUE, reason |-> "block_underused",
          availableBudget |-> RoundToCents(Min(fromWeekly, fromBlock))]

----------------------------------------------------------------------------
(* lib/threshold.js isQuietHours.  A time of day is the string "HH:MM" (or *)
(* "HH"), held as its fields between the colons, each field a sequence of  *)
(* decimal digits: "23:00" is << <<2, 3>>, <<0, 0>> >>.                     *)

\* Number(field) of a field of decimal digits; Number('') is 0.
RECURSIVE NumberOf(_)
NumberOf(digits) ==
    IF digits = << >> THEN 0
    ELSE NumberOf(SubSeq(digits, 1, Len(digits) - 1)) * 10 + digits[Len(digits)]

\* Mutant: the minutes field is dropped.
parseHour(str) == NumberOf(str[1]) * 60

\* const [h, m] = str.split(':').map(Number); return h * 60 + (m || 0)
parseTime(str) ==
    NumberOf(str[1]) * 60 + (IF Len(str) >= 2 THEN NumberOf(str[2]) ELSE 0)

\* isQuietHours(quietStart, quietEnd) at the local time currentMinutes
isQuietHours(quietStart, quietEnd, currentMinutes) ==
    IF quietStart = << >> \/ quietEnd = << >> THEN FALSE
    ELSE LET start == parseTime(Some(quietStart))
             end == parseTime(Some(quietEnd))
         IN IF start <= end
            THEN currentMinutes >= start /\ currentMinutes < end
            ELSE currentMinutes >= start \/ currentMinutes < end

----------------------------------------------------------------------------
(* lib/task-manager.js, lib/history.js: the stores.                        *)

\* readFileSync + JSON.parse, { tasks: [] } on any error
loadTasks(file) == IF file.state = "ok" THEN file.tasks ELSE << >>

\* writeFileSync of the whole document
saveTasks(data) == [state |-> "ok", tasks |-> data]

\* Mutant: the status of every task is overwritten.
updateEveryTaskStatus(tasks, taskId, status) ==
    [i \in 1..Len(tasks) |-> [tasks[i] EXCEPT !.status = status]]

\* (data.tasks || []).find(t => t.id === taskId); if (task) task.status = status
updateTaskStatus(tasks, taskId, status) ==
    IF \E i \in 1..Len(tasks) : tasks[i].id = taskId
    THEN LET i == CHOOSE k \in 1..Len(tasks) :
                      /\ tasks[k].id = taskId
                      /\ \A j \in 1..(k - 1) : tasks[j].id # taskId
         IN [tasks EXCEPT ![i].status = status]
    ELSE tasks

\* readFileSync + JSON.parse, [] on any error (file missing or not JSON)
loadHistory(file) == IF file.state = "ok" THEN file.records ELSE << >>

\* history.push({...}); writeFileSync(historyPath, JSON.stringify(history)):
\* the file a successful write leaves.
appendRecord(file, record) ==
    [state |-> "ok", records |-> Append(loadHistory(file), record)]

\* Mutant: every task that succeeded goes back to 'on'.
NewStatusRepeatsAll(t, res) ==
    IF res.success THEN "on" ELSE "failed"

\* Mutant: a failed task goes back to 'on'.
NewStatusRetry(t, res) ==
    IF res.success THEN (IF t.repeat THEN "on" ELSE "done") ELSE "on"

\* result.success ? (task.repeat ? 'on' : 'done') : 'failed'
NewStatus(t, res) ==
    IF res.success THEN (IF t.repeat THEN "on" ELSE "done") ELSE "failed"

\* A property of a task or of a config section: undefined (or null) if the
\* document does not have it.
OptionOf(r, name) == IF name \in DOMAIN r THEN r[name] ELSE << >>

\* config.execution?.yolo, ?.model, ?.defaultAllowedTools
ExecutionOf(cfg) ==
    IF "execution" \in DOMAIN cfg THEN cfg.execution
    ELSE [yolo |-> << >>, model |-> << >>, defaultAllowedTools |-> << >>]

\* a || b on optional strings: a unless it is undefined or ''
OrText(a, b) == IF a # << >> /\ Some(a) # "" THEN a ELSE b

\* Mutant: the config-level yolo wins over the task's.
effectiveYoloConfigFirst(t, cfg) ==
    IF ExecutionOf(cfg).yolo # << >> THEN Some(ExecutionOf(cfg).yolo)
    ELSE IF OptionOf(t, "yolo") # << >> THEN Some(OptionOf(t, "yolo"))
    ELSE FALSE

\* task.yolo ?? config.execution?.yolo ?? false
effectiveYolo(t, cfg) ==
    IF OptionOf(t, "yolo") # << >> THEN Some(OptionOf(t, "yolo"))
    ELSE IF ExecutionOf(cfg).yolo # << >> THEN Some(ExecutionOf(cfg).yolo)
    ELSE FALSE

\* The flags executeTask pushes behind ['-p', fullPrompt, '--output-format',
\* 'json']: --dangerously-skip-permissions if (yolo), --model if (model),
\* --allowedTools if (allowedTools), --max-budget-usd if (task.maxBudgetUSD).
cliFlags(t, cfg) ==
    LET model == OrText(OptionOf(t, "model"), ExecutionOf(cfg).model)
        allowedTools == OrText(OptionOf(t, "allowedTools"),
                               ExecutionOf(cfg).defaultAllowedTools)
    IN [skipPermissions |-> effectiveYolo(t, cfg),
        model |-> OrText(model, << >>),
        allowedTools |-> OrText(allowedTools, << >>),
        maxBudgetUSD |-> IF t.maxBudgetUSD # << >> /\ Some(t.maxBudgetUSD) # 0
                         THEN t.maxBudgetUSD ELSE << >>]

\* The child ended with exit code 0 and printed a JSON object: execFileSync
\* returns and the property reads on the parsed value go through.  Output
\* that is JSON but no object (null) makes `result.cost_usd` throw into
\* the catch block of a failed execution.
Succeeds(out) == out.code = 0 /\ out.stdout # "null"

\* Mutant: output that does not parse is an error of the execution.
executeResultStrict(out) ==
    IF ~Succeeds(out) \/ out.stdout # "json"
    THEN [success |-> FALSE, result |-> "none", costUSD |-> << >>]
    ELSE [success |-> TRUE, result |-> "parsed", costUSD |-> out.cost]

\* What executeTask returns.  Exit code 0: result = JSON.parse(raw), or
\* { rawOutput: raw.slice(0, 5000) } if that throws, and costUSD =
\* result.cost_usd ?? ... ?? null.  Otherwise: the catch block's value.
executeResult(out) ==
    IF ~Succeeds(out)
    THEN [success |-> FALSE, result |-> "none", costUSD |-> << >>]
    ELSE IF out.stdout = "json"
    THEN [success |-> TRUE, result |-> "parsed", costUSD |-> out.cost]
    ELSE [success |-> TRUE, result |-> "raw", costUSD |-> << >>]

\* The length of the text saveRunContext takes from a successful result:
\* result.result of parsed output, result.rawOutput of wrapped raw output.
textChars(out) ==
    IF out.stdout = "json" THEN out.chars ELSE Min(out.chars, MaxRawChars)

\* Mutant: the summary as a whole is cut to the limit.
summaryCharsCut(out) ==
    IF Succeeds(out)
    THEN Min(SuccessHeaderChars + textChars(out), MaxContextChars)
    ELSE Min(FailureHeaderChars
             + (IF out.chars = 0 THEN UnknownChars ELSE out.chars), MaxContextChars)

\* The length of the summary saveRunContext writes: the header line and
\* text.slice(0, 4000) after a success, the header line and
\* (error || 'unknown').slice(0, 1000) after a failure.
summaryChars(out) ==
    IF Succeeds(out)
    THEN SuccessHeaderChars + Min(textChars(out), MaxContextChars)
    ELSE FailureHeaderChars
         + (IF out.chars = 0 THEN UnknownChars ELSE Min(out.chars, MaxErrorChars))

----------------------------------------------------------------------------
(* Input domains.                                                          *)

\* Sequences over S of length at most n.
SeqsUpTo(S, n) == UNION {[1..k -> S] : k \in 0..n}

\* Lengths of an output or of an error message: nothing, and each limit of
\* the code, met and exceeded.
Lengths ==
    {0} \cup {limit + extra : limit \in {MaxErrorChars, MaxContextChars, MaxRawChars},
                              extra \in 0..MaxExtraChars}

\* The ways the child can end: exit code 0 with output that is a JSON
\* object (with or without cost_usd, chars the length of its result text),
\* that is no JSON (chars its length) or that is JSON null; or a non-zero
\* exit, a timeout or a spawn error.  For the last two, chars is the
\* length of the error message.
AnyCli ==
    [code : {0}, stdout : {"json"}, cost : {<< >>, <<25>>}, chars : Lengths]
    \cup [code : {0}, stdout : {"text", "null"}, cost : {<< >>}, chars : Lengths]
    \cup [code : {1}, stdout : {"none"}, cost : {<< >>}, chars : Lengths]

\* A CLI that prints a JSON object with a short result, or fails with a
\* short message.
PlainCli ==
    {[code |-> 0, stdout |-> "json", cost |-> <<25>>, chars |-> MaxErrorChars],
     [code |-> 1, stdout |-> "none", cost |-> << >>, chars |-> MaxErrorChars]}

\* Task ids are unique: the id of a task is its position in the file.  Every
\* task has a prompt text of its own (prompt i is the text of task i).
WithIds(q) ==
    [i \in 1..Len(q) |->
        [id |-> i, prompt |-> i, status |-> q[i].status,
         priority |-> q[i].priority, maxBudgetUSD |-> q[i].maxBudgetUSD,
         repeat |-> q[i].repeat]]

QueuesOf(Fields, n) == {WithIds(q) : q \in SeqsUpTo(Fields, n)}

\* The queue file a run starts from holds tasks that are off, on, or left
\* running by a run that died; done and failed tasks come from its cycles.
CycleTasks ==
    [status : {"off", "on", "running"}, priority : {<< >>, <<1>>},
     maxBudgetUSD : {<< >>}, repeat : BOOLEAN]

PickTasks ==
    [status : {"on", "off", "running"},
     priority : {<< >>, <<1>>, <<999>>, <<1000>>},
     maxBudgetUSD : {<< >>, <<1>>, <<3>>}, repeat : {FALSE}]

PickBudgets == {<< >>, <<0>>, <<2>>}

\* Queues handed to updateTaskStatus: tasks of every status.
UpdateTasks ==
    [status : Statuses, priority : {<< >>, <<1>>}, maxBudgetUSD : {<< >>},
     repeat : BOOLEAN]

\* The arguments of updateTaskStatus: the id of a task of the queue or of
\* none, and the new status.
UpdateArgs == [taskId : 1..(MaxUpdateTasks + 1), status : Statuses]

Configs == [maxUtilization : {<< >>, <<50>>}]

Windows == [name : WindowNames, status : WindowStatuses, utilization : Utilizations]

\* Object keys are unique: no two windows of a snapshot share a name.
WindowLists ==
    {ws \in SeqsUpTo(Windows, MaxWindows) :
        \A i, j \in 1..Len(ws) : ws[i].name = ws[j].name => i = j}

\* Windows of which the response may name a reset time, before or after
\* noon of the model's day.
TimedWindows ==
    [name : {"5h", "7d"}, status : {<<"allowed">>, <<"rejected">>},
     utilization : {<<50>>, <<90>>}]
    \cup [name : {"5h", "7d"}, status : {<<"allowed">>, <<"rejected">>},
          utilization : {<<50>>, <<90>>}, reset : {2 * 60 + 30, 15 * 60}]

TimedSnapshots ==
    [statusCode : {OkStatus, RateLimitedStatus},
     windows : {ws \in SeqsUpTo(TimedWindows, MaxWindows) :
                   \A i, j \in 1..Len(ws) : ws[i].name = ws[j].name => i = j},
     claim : {<< >>, <<"5h">>}]

Snapshots ==
    [statusCode : {OkStatus, RateLimitedStatus}, windows : WindowLists,
     claim : {<< >>} \cup {<<n>> : n \in WindowNames}]

\* What fetchRateLimits returns to a cycle: null, or a snapshot of the
\* 5-hour window (underused, well used, or rejected with a 429).
CycleSnapshots ==
    {[statusCode |-> x[1],
      windows |-> <<[name |-> "5h", status |-> <<x[2]>>, utilization |-> <<x[3]>>]>>,
      claim |-> <<"5h">>] :
        x \in {<<OkStatus, "allowed", 50>>, <<OkStatus, "allowed", 90>>,
               <<RateLimitedStatus, "rejected", 90>>}}

\* A response with a status that is neither 200 nor 429 (a server error),
\* whatever rate-limit headers it carries.
FailedResponses ==
    {[statusCode |-> 500,
      windows |-> <<[name |-> "5h", status |-> <<"allowed">>, utilization |-> <<50>>]>>,
      claim |-> <<"5h">>]}

\* What the request of fetchRateLimits comes to: loadCredentials or
\* makeMinimalRequest throws (<< >>), or a response arrives.
FetchOutcomes == {<< >>} \cup {<<s>> : s \in CycleSnapshots \cup FailedResponses}

\* The project has no settings.local.json and no executor has looked.
NoSettings == [file |-> "absent", original |-> << >>]

\* No history file yet.
NoHistory == [state |-> "missing", records |-> << >>]

\* No billing-block telemetry (the rate-limit model is in use).
NoUsage == [block |-> << >>, weeklyCost |-> 0]

QueueFiles ==
    {[state |-> "ok", tasks |-> q] : q \in QueuesOf(CycleTasks, MaxTasks)}
    \cup {[state |-> st, tasks |-> << >>] : st \in {"missing", "malformed"}}

\* A queue file of any content: a queue document, no file, text that is
\* not JSON ("malformed"), or JSON that is no queue document ("notqueue":
\* null, or an object whose tasks is not an array).
AnyQueueFiles == QueueFiles \cup {[state |-> "notqueue", tasks |-> << >>]}

\* Queues of tasks that are on or off, with a priority or none.
FrameTasks ==
    [status : {"on", "off"}, priority : {<< >>, <<1>>}, maxBudgetUSD : {<< >>},
     repeat : {FALSE}]

FrameQueueFiles ==
    {[state |-> "ok", tasks |-> q] : q \in QueuesOf(FrameTasks, MaxTasks)}

\* Queues of tasks that are on or off, for runs that execute them.
ExecTasks ==
    [status : {"on", "off"}, priority : {<< >>}, maxBudgetUSD : {<< >>},
     repeat : BOOLEAN]

ExecQueueFiles ==
    {[state |-> "ok", tasks |-> q] : q \in QueuesOf(ExecTasks, MaxTasks)}

\* The records appendRecord is handed: the task and the success of a run.
HistoryRecords == [taskId : 1..MaxTasks, success : BOOLEAN]

\* A history file holds a JSON array of records ("ok"), or text that is not
\* JSON but in which records were stored ("malformed"), or JSON that is no
\* array ("notarray"), or it does not exist.
HistoryFiles ==
    {[state |-> st, records |-> h] :
        st \in {"ok", "malformed"}, h \in SeqsUpTo(HistoryRecords, MaxHistory)}
    \cup {NoHistory, [state |-> "notarray", records |-> << >>]}

\* Billing-block telemetry.  No difference of a limit and a cost ends in
\* half a cent.
RemainingMinutes == {0, 29, 30, 59, 60, 300}
BlockCosts == {0, 1998, 2000, 2002, 14994, 15000, 15001}
WeeklyCosts == {0, 2993, 3000, 99997, 100000, 100003}

Blocks ==
    {<< >>} \cup {<<b>> : b \in [remainingMinutes : RemainingMinutes,
                                  totalCost : BlockCosts]}

Usages == [block : Blocks, weeklyCost : WeeklyCosts]

BillingConfigs ==
    [minRemainingMinutes : {<< >>, <<30>>}, maxBlockCostUSD : {<< >>, <<2000>>},
     weeklyBudgetUSD : {<< >>, <<3000>>}]

\* watch.quietHoursStart / quietHoursEnd: null, "23:00", "07:00", "12:30", "9"
QuietTimes ==
    {<< >>, << << <<2, 3>>, <<0, 0>> >> >>, << << <<0, 7>>, <<0, 0>> >> >>,
     << << <<1, 2>>, <<3, 0>> >> >>, << << <<9>> >> >>}

QuietConfigs == [quietHoursStart : QuietTimes, quietHoursEnd : QuietTimes]

\* The config of a cycle run: the default threshold, quiet hours 23:00-07:00.
NightlyQuiet ==
    [maxUtilization |-> << >>,
     quietHoursStart |-> << << <<2, 3>>, <<0, 0>> >> >>,
     quietHoursEnd |-> << << <<0, 7>>, <<0, 0>> >> >>]

\* What a task or the execution section of the config can say about yolo
\* (nothing, false, true) and about a model or the allowed tools (nothing,
\* the empty string, a name).
YoloOptions == {<< >>, <<FALSE>>, <<TRUE>>}
TaskOptions ==
    [yolo : YoloOptions, model : {<< >>, <<"">>, <<"opus">>},
     allowedTools : {<< >>, <<"">>, <<"Read">>}, maxBudgetUSD : {<< >>, <<3>>}]
ExecutionConfigs ==
    {NightlyQuiet}
    \cup {[maxUtilization |-> NightlyQuiet.maxUtilization,
           quietHoursStart |-> NightlyQuiet.quietHoursStart,
           quietHoursEnd |-> NightlyQuiet.quietHoursEnd,
           execution |-> e] :
              e \in [yolo : YoloOptions, model : {<< >>, <<"">>, <<"sonnet">>},
                     defaultAllowedTools : {<< >>, <<"">>, <<"Bash">>}]}

\* The times of day at which a watch loop looks at the clock: 02:00, 12:00.
Clock == {2 * 60, 12 * 60}

\* The configs of a watch run: quiet hours 23:00-07:00, or none.
WatchConfigs ==
    {NightlyQuiet,
     [maxUtilization |-> << >>, quietHoursStart |-> << >>, quietHoursEnd |-> << >>]}

----------------------------------------------------------------------------
(* Initial states.                                                         *)

\* watchLoop has not started and no cycle has run.
Fresh ==
    /\ running = TRUE
    /\ sleepLeft = 0
    /\ cycles = 0
    /\ rateLimits = << >>
    /\ decision = << >>
    /\ task = << >>
    /\ result = << >>
    /\ execInFlight = 0
    /\ prompt = << >>
    /\ writes = << >>
    /\ error = << >>
    /\ warned = {}
    /\ child = << >>

\* No report and no run context has been written, and nothing has been done
\* from outside.
NoArtifacts ==
    /\ reports = {}
    /\ context = [i \in 1..MaxTasks |-> << >>]
    /\ outside = << >>

\* Nothing is handed to the billing-block engine or to isQuietHours.
NoEngineInputs ==
    /\ args = << >>
    /\ usage = NoUsage
    /\ now = 0
    /\ quiet = << >>

\* bin/burn.js main(): the process starts in --once or --watch mode.
Init ==
    /\ mode \in {"once", "watch"}
    /\ dryRun \in BOOLEAN
    /\ config = NightlyQuiet
    /\ wpc = "main"
    /\ cpc = "idle"
    /\ availableBudget = << >>
    /\ tasksFile \in QueueFiles
    /\ taskData = << >>
    /\ historyFile = NoHistory
    /\ diskFaults = FALSE
    /\ cli = PlainCli
    /\ permissions = NoSettings
    /\ Fresh /\ NoArtifacts /\ NoEngineInputs

\* main() starts on a queue of tasks that are on or off, on a disk that can
\* reject the writes of reports, contexts and history.
InitExec ==
    /\ mode \in {"once", "watch"}
    /\ dryRun = FALSE
    /\ config = NightlyQuiet
    /\ wpc = "main"
    /\ cpc = "idle"
    /\ availableBudget = << >>
    /\ tasksFile \in ExecQueueFiles
    /\ taskData = << >>
    /\ historyFile = NoHistory
    /\ diskFaults = TRUE
    /\ cli = PlainCli
    /\ permissions = NoSettings
    /\ Fresh /\ NoArtifacts /\ NoEngineInputs

\* main() starts with or without --dry-run on a queue of tasks that are on
\* or off, on a disk that can reject the writes of reports, contexts and
\* history.
InitRecord ==
    /\ mode \in {"once", "watch"}
    /\ dryRun \in BOOLEAN
    /\ config = NightlyQuiet
    /\ wpc = "main"
    /\ cpc = "idle"
    /\ availableBudget = << >>
    /\ tasksFile \in ExecQueueFiles
    /\ taskData = << >>
    /\ historyFile = NoHistory
    /\ diskFaults = TRUE
    /\ cli = PlainCli
    /\ permissions = NoSettings
    /\ Fresh /\ NoArtifacts /\ NoEngineInputs

\* main() starts in --watch mode, with or without quiet hours.
InitWatch ==
    /\ mode = "watch"
    /\ dryRun = FALSE
    /\ config \in WatchConfigs
    /\ wpc = "main"
    /\ cpc = "idle"
    /\ availableBudget = << >>
    /\ tasksFile \in ExecQueueFiles
    /\ taskData = << >>
    /\ historyFile = NoHistory
    /\ diskFaults = FALSE
    /\ cli = PlainCli
    /\ permissions = NoSettings
    /\ Fresh /\ NoArtifacts /\ NoEngineInputs

\* main() starts on a queue of tasks that are on or off, where the process
\* can be killed and started again or the queue file edited from outside.
InitEnv ==
    /\ mode \in {"once", "watch"}
    /\ dryRun = FALSE
    /\ config = NightlyQuiet
    /\ wpc = "main"
    /\ cpc = "idle"
    /\ availableBudget = << >>
    /\ tasksFile \in ExecQueueFiles
    /\ taskData = << >>
    /\ historyFile = NoHistory
    /\ diskFaults = FALSE
    /\ cli = PlainCli
    /\ permissions = NoSettings
    /\ Fresh /\ NoArtifacts /\ NoEngineInputs

\* main() starts on a queue of tasks with and without a priority, where
\* the queue file can be edited from outside.
InitFrame ==
    /\ mode \in {"once", "watch"}
    /\ dryRun = FALSE
    /\ config = NightlyQuiet
    /\ wpc = "main"
    /\ cpc = "idle"
    /\ availableBudget = << >>
    /\ tasksFile \in FrameQueueFiles
    /\ taskData = << >>
    /\ historyFile = NoHistory
    /\ diskFaults = FALSE
    /\ cli = PlainCli
    /\ permissions = NoSettings
    /\ Fresh /\ NoArtifacts /\ NoEngineInputs

\* main() starts in --watch mode with no quiet hours, on a queue of tasks
\* none of which has repeat=true.
InitDrain ==
    /\ mode = "watch"
    /\ dryRun = FALSE
    /\ config = [maxUtilization |-> << >>, quietHoursStart |-> << >>,
                 quietHoursEnd |-> << >>]
    /\ wpc = "main"
    /\ cpc = "idle"
    /\ availableBudget = << >>
    /\ tasksFile \in FrameQueueFiles
    /\ taskData = << >>
    /\ historyFile = NoHistory
    /\ diskFaults = FALSE
    /\ cli = PlainCli
    /\ permissions = NoSettings
    /\ Fresh /\ NoArtifacts /\ NoEngineInputs

\* pickTask applied to a queue and an optional budget ceiling.
InitPick ==
    /\ mode = "pick"
    /\ dryRun = FALSE
    /\ config = [maxUtilization |-> << >>]
    /\ wpc = "exit"
    /\ cpc = "input"
    /\ availableBudget \in PickBudgets
    /\ tasksFile = [state |-> "missing", tasks |-> << >>]
    /\ taskData \in QueuesOf(PickTasks, MaxPickTasks)
    /\ historyFile = NoHistory
    /\ diskFaults = FALSE
    /\ cli = PlainCli
    /\ permissions = NoSettings
    /\ Fresh /\ NoArtifacts /\ NoEngineInputs

\* updateTaskStatus applied to a queue, a task id and a status.
InitUpdate ==
    /\ mode = "update"
    /\ dryRun = FALSE
    /\ config = [maxUtilization |-> << >>]
    /\ wpc = "exit"
    /\ cpc = "input"
    /\ availableBudget = << >>
    /\ tasksFile = [state |-> "missing", tasks |-> << >>]
    /\ taskData \in QueuesOf(UpdateTasks, MaxUpdateTasks)
    /\ historyFile = NoHistory
    /\ diskFaults = FALSE
    /\ cli = PlainCli
    /\ permissions = NoSettings
    /\ args \in {<<a>> : a \in UpdateArgs}
    /\ usage = NoUsage
    /\ now = 0
    /\ quiet = << >>
    /\ Fresh /\ NoArtifacts

\* evaluate applied to an optional snapshot and a config.
InitEval ==
    /\ mode = "eval"
    /\ dryRun = FALSE
    /\ config \in Configs
    /\ wpc = "exit"
    /\ cpc = "input"
    /\ availableBudget = << >>
    /\ tasksFile = [state |-> "missing", tasks |-> << >>]
    /\ taskData = << >>
    /\ running = TRUE
    /\ sleepLeft = 0
    /\ cycles = 0
    /\ rateLimits \in {<< >>} \cup {<<s>> : s \in Snapshots}
    /\ decision = << >>
    /\ task = << >>
    /\ result = << >>
    /\ execInFlight = 0
    /\ prompt = << >>
    /\ writes = << >>
    /\ error = << >>
    /\ warned = {}
    /\ child = << >>
    /\ historyFile = NoHistory
    /\ diskFaults = FALSE
    /\ cli = PlainCli
    /\ permissions = NoSettings
    /\ NoArtifacts /\ NoEngineInputs

\* The billing-block evaluate applied to a block, a weekly cost and a config.
InitBilling ==
    /\ mode = "billing"
    /\ dryRun = FALSE
    /\ config \in BillingConfigs
    /\ wpc = "exit"
    /\ cpc = "input"
    /\ availableBudget = << >>
    /\ tasksFile = [state |-> "missing", tasks |-> << >>]
    /\ taskData = << >>
    /\ historyFile = NoHistory
    /\ diskFaults = FALSE
    /\ cli = PlainCli
    /\ permissions = NoSettings
    /\ args = << >>
    /\ usage \in Usages
    /\ now = 0
    /\ quiet = << >>
    /\ Fresh /\ NoArtifacts

\* isQuietHours applied to the configured quiet hours at a time of day.
InitQuiet ==
    /\ mode = "quiet"
    /\ dryRun = FALSE
    /\ config \in QuietConfigs
    /\ wpc = "exit"
    /\ cpc = "input"
    /\ availableBudget = << >>
    /\ tasksFile = [state |-> "missing", tasks |-> << >>]
    /\ taskData = << >>
    /\ historyFile = NoHistory
    /\ diskFaults = FALSE
    /\ cli = PlainCli
    /\ permissions = NoSettings
    /\ args = << >>
    /\ usage = NoUsage
    /\ now \in 0..(MinutesPerDay - 1)
    /\ quiet = << >>
    /\ Fresh /\ NoArtifacts

\* runCycle is at its step 3 (loadTasks, pickTask), after a decision to
\* run, with a queue file of any content.
InitLoad ==
    /\ mode = "once"
    /\ dryRun \in BOOLEAN
    /\ config = NightlyQuiet
    /\ wpc = "await"
    /\ cpc = "select"
    /\ availableBudget = << >>
    /\ tasksFile \in AnyQueueFiles
    /\ taskData = << >>
    /\ historyFile = NoHistory
    /\ diskFaults = FALSE
    /\ cli = PlainCli
    /\ permissions = NoSettings
    /\ running = TRUE
    /\ sleepLeft = 0
    /\ cycles = 1
    /\ \E s \in CycleSnapshots :
        /\ evaluate(<<s>>, config).shouldRun
        /\ rateLimits = <<s>>
        /\ decision = <<evaluate(<<s>>, config)>>
    /\ task = << >>
    /\ result = << >>
    /\ execInFlight = 0
    /\ prompt = << >>
    /\ writes = << >>
    /\ error = << >>
    /\ warned = {}
    /\ child = << >>
    /\ NoArtifacts /\ NoEngineInputs

\* A snapshot and a config are handed to evaluate at some time of the day.
InitPure ==
    /\ mode = "eval"
    /\ dryRun = FALSE
    /\ config \in Configs
    /\ wpc = "exit"
    /\ cpc = "input"
    /\ availableBudget = << >>
    /\ tasksFile = [state |-> "missing", tasks |-> << >>]
    /\ taskData = << >>
    /\ rateLimits \in {<< >>} \cup {<<s>> : s \in TimedSnapshots}
    /\ historyFile = NoHistory
    /\ diskFaults = FALSE
    /\ cli = PlainCli
    /\ permissions = NoSettings
    /\ args = << >>
    /\ usage = NoUsage
    /\ now \in Clock
    /\ quiet = << >>
    /\ running = TRUE
    /\ sleepLeft = 0
    /\ cycles = 0
    /\ decision = << >>
    /\ task = << >>
    /\ result = << >>
    /\ execInFlight = 0
    /\ prompt = << >>
    /\ writes = << >>
    /\ error = << >>
    /\ warned = {}
    /\ child = << >>
    /\ NoArtifacts

\* The billing-block cycle is about to ask ccusage for the cost of the
\* week: weekly is what that comes to, nothing if ccusage fails.
InitTelemetry ==
    /\ mode = "billing"
    /\ dryRun = FALSE
    /\ config \in BillingConfigs
    /\ wpc = "exit"
    /\ cpc = "fetch"
    /\ availableBudget = << >>
    /\ tasksFile = [state |-> "missing", tasks |-> << >>]
    /\ taskData = << >>
    /\ historyFile = NoHistory
    /\ diskFaults = FALSE
    /\ cli = PlainCli
    /\ permissions = NoSettings
    /\ args = << >>
    /\ \E b \in Blocks, w \in {<< >>} \cup {<<c>> : c \in WeeklyCosts} :
        usage = [block |-> b, weeklyCost |-> 0, weekly |-> w]
    /\ now = 0
    /\ quiet = << >>
    /\ Fresh /\ NoArtifacts

\* runCycle is about to load the queue; the project directory of the tasks
\* has a settings.local.json of its owner, or none.
InitPermissions ==
    /\ mode = "once"
    /\ dryRun = FALSE
    /\ config = NightlyQuiet
    /\ wpc = "await"
    /\ cpc = "select"
    /\ availableBudget = << >>
    /\ tasksFile \in ExecQueueFiles
    /\ taskData = << >>
    /\ historyFile = NoHistory
    /\ diskFaults \in BOOLEAN
    /\ cli = PlainCli
    /\ permissions \in {NoSettings, [file |-> "original", original |-> << >>]}
    /\ running = TRUE
    /\ sleepLeft = 0
    /\ cycles = 1
    /\ \E s \in CycleSnapshots :
        /\ evaluate(<<s>>, config).shouldRun
        /\ rateLimits = <<s>>
        /\ decision = <<evaluate(<<s>>, config)>>
    /\ task = << >>
    /\ result = << >>
    /\ execInFlight = 0
    /\ prompt = << >>
    /\ writes = << >>
    /\ error = << >>
    /\ warned = {}
    /\ child = << >>
    /\ NoArtifacts /\ NoEngineInputs

\* main() starts with --status, on any queue file and any history file.
InitStatus ==
    /\ mode = "status"
    /\ dryRun = FALSE
    /\ config = NightlyQuiet
    /\ wpc = "main"
    /\ cpc = "idle"
    /\ availableBudget = << >>
    /\ tasksFile \in AnyQueueFiles
    /\ taskData = << >>
    /\ historyFile \in {h \in HistoryFiles : Len(h.records) <= 1}
    /\ diskFaults = FALSE
    /\ cli = PlainCli
    /\ permissions = NoSettings
    /\ Fresh /\ NoArtifacts /\ NoEngineInputs

\* runCycle is about to call executeTask for a task that is marked as
\* running, with any options in the task and in the config.
InitArgs ==
    /\ mode = "once"
    /\ dryRun = FALSE
    /\ config \in ExecutionConfigs
    /\ wpc = "await"
    /\ cpc = "exec"
    /\ availableBudget = << >>
    /\ \E o \in TaskOptions, again \in BOOLEAN :
        LET t == [id |-> 1, prompt |-> 1, status |-> "running", priority |-> << >>,
                  maxBudgetUSD |-> o.maxBudgetUSD, repeat |-> again,
                  yolo |-> o.yolo, model |-> o.model,
                  allowedTools |-> o.allowedTools]
        IN /\ tasksFile = [state |-> "ok", tasks |-> <<t>>]
           /\ taskData = <<t>>
           /\ task = <<t>>
    /\ historyFile = NoHistory
    /\ diskFaults = FALSE
    /\ cli = PlainCli
    /\ permissions = NoSettings
    /\ running = TRUE
    /\ sleepLeft = 0
    /\ cycles = 1
    /\ \E s \in CycleSnapshots :
        /\ evaluate(<<s>>, config).shouldRun
        /\ rateLimits = <<s>>
        /\ decision = <<evaluate(<<s>>, config)>>
    /\ result = << >>
    /\ execInFlight = 0
    /\ prompt = << >>
    /\ writes = << >>
    /\ error = << >>
    /\ warned = {}
    /\ child = << >>
    /\ NoArtifacts /\ NoEngineInputs

\* runCycle is about to load the queue, on a machine whose CLI can end in
\* any way and print output of any length.
InitOutput ==
    /\ mode = "once"
    /\ dryRun = FALSE
    /\ config = NightlyQuiet
    /\ wpc = "await"
    /\ cpc = "select"
    /\ availableBudget = << >>
    /\ tasksFile \in ExecQueueFiles
    /\ taskData = << >>
    /\ historyFile = NoHistory
    /\ diskFaults = FALSE
    /\ cli = AnyCli
    /\ permissions = NoSettings
    /\ running = TRUE
    /\ sleepLeft = 0
    /\ cycles = 1
    /\ \E s \in CycleSnapshots :
        /\ evaluate(<<s>>, config).shouldRun
        /\ rateLimits = <<s>>
        /\ decision = <<evaluate(<<s>>, config)>>
    /\ task = << >>
    /\ result = << >>
    /\ execInFlight = 0
    /\ prompt = << >>
    /\ writes = << >>
    /\ error = << >>
    /\ warned = {}
    /\ child = << >>
    /\ NoArtifacts /\ NoEngineInputs

\* runCycle is at its step 7 (appendRecord) with a task run and a history
\* file of any content.
InitHistory ==
    /\ mode = "once"
    /\ dryRun = FALSE
    /\ config = NightlyQuiet
    /\ wpc = "await"
    /\ cpc = "append"
    /\ availableBudget = << >>
    /\ \E q \in QueuesOf([status : {"done", "failed"}, priority : {<< >>},
                          maxBudgetUSD : {<< >>}, repeat : {FALSE}], MaxTasks) :
        /\ q # << >>
        /\ tasksFile = [state |-> "ok", tasks |-> q]
        /\ taskData = q
        /\ \E i \in 1..Len(q) :
            /\ task = <<q[i]>>
            /\ result \in {<<executeResult(out)>> : out \in
                              {o \in PlainCli : Succeeds(o) <=> q[i].status = "done"}}
    /\ historyFile \in HistoryFiles
    /\ diskFaults \in BOOLEAN
    /\ cli = PlainCli
    /\ permissions = NoSettings
    /\ running = TRUE
    /\ sleepLeft = 0
    /\ cycles = 1
    /\ rateLimits = << >>
    /\ decision = << >>
    /\ execInFlight = 0
    /\ prompt = << >>
    /\ writes = << >>
    /\ error = << >>
    /\ warned = {}
    /\ child = << >>
    /\ NoArtifacts /\ NoEngineInputs

----------------------------------------------------------------------------
(* bin/burn.js runCycle.  cpc is the statement the cycle has reached:      *)
(*   "fetch"      awaiting fetchRateLimits()                               *)
(*   "select"     the decision is to run; about to load and pick           *)
(*   "mark"       a task is selected and this is no dry run                *)
(*   "exec"       'running' is saved; about to call executeTask            *)
(*   "executing"  the child process of executeTask is running              *)
(*   "update"     executeTask has returned                                 *)
(*   "append"     the final status is saved; about to append the record    *)
(*   "done"       runCycle has returned, "thrown" it has thrown            *)

cycleLocals ==
    <<rateLimits, decision, taskData, task, result, prompt, writes, error, warned,
      child>>
files == <<tasksFile, historyFile, reports, context>>
settings == <<mode, args, dryRun, config, availableBudget, usage, quiet, diskFaults, cli, permissions,
              outside>>
process == <<settings, now>>

\* What a write to the reports, context or history store can come to: with
\* disk faults it can throw (the code catches it), without them it succeeds.
WriteOutcomes == IF diskFaults THEN BOOLEAN ELSE {TRUE}
loop == <<wpc, running, sleepLeft, cycles>>

\* runCycle(config, tasksPath, dryRun) is called.
CallRunCycle ==
    /\ cpc' = "fetch"
    /\ cycles' = cycles + 1
    /\ rateLimits' = << >>
    /\ decision' = << >>
    /\ taskData' = << >>
    /\ task' = << >>
    /\ result' = << >>
    /\ prompt' = << >>
    /\ writes' = << >>
    /\ error' = << >>
    /\ warned' = {}
    /\ child' = << >>

\* fetchRateLimits: null if the request threw or the response status is
\* neither 200 nor 429, else the parsed rate limits with the status code.
fetchRateLimits(outcome) ==
    IF outcome = << >> THEN << >>
    ELSE IF Some(outcome).statusCode \notin {OkStatus, RateLimitedStatus} THEN << >>
    ELSE outcome

\* Mutant: the cycle goes on to select a task whatever the decision.
CycleEvaluateAlwaysRuns ==
    /\ cpc = "fetch"
    /\ \E outcome \in FetchOutcomes :
        LET rl == fetchRateLimits(outcome)
            d == evaluate(rl, config)
        IN
        /\ rateLimits' = rl
        /\ decision' = <<d>>
        /\ cpc' = "select"
    /\ UNCHANGED <<taskData, task, result, prompt, writes, warned, child, error,
                   execInFlight, files,
                   process, loop>>

\* 1. fetchRateLimits resolves; 2. evaluate; return unless shouldRun.
CycleEvaluate ==
    /\ cpc = "fetch"
    /\ \E outcome \in FetchOutcomes :
        LET rl == fetchRateLimits(outcome)
            d == evaluate(rl, config)
        IN
        /\ rateLimits' = rl
        /\ decision' = <<d>>
        /\ cpc' = IF d.shouldRun THEN "select" ELSE "done"
    /\ UNCHANGED <<taskData, task, result, prompt, writes, warned, child, error,
                   execInFlight, files,
                   process, loop>>

\* Mutant: the dry-run check is missing.
CycleSelectNoDryRun ==
    /\ cpc = "select"
    /\ LET data == loadTasks(tasksFile)
           picked == pickTask(data, << >>)
       IN /\ taskData' = data
          /\ task' = picked
          /\ cpc' = IF picked = << >> THEN "done" ELSE "mark"
    /\ UNCHANGED <<rateLimits, decision, result, prompt, writes, warned, child, error,
                   execInFlight, files,
                   process, loop>>

\* 3. loadTasks, pickTask(taskData); return if no task, or on a dry run.
\* Mutant: pickTask sorts data.tasks itself, not the filtered copy.
CycleSelectSortsQueue ==
    /\ cpc = "select"
    /\ IF tasksFile.state = "notqueue"
       THEN /\ taskData' = << >> /\ task' = << >>
            /\ error' = <<"type">> /\ cpc' = "thrown"
       ELSE LET data == loadTasks(tasksFile)
                picked == pickTask(data, << >>)
            IN /\ taskData' = SortBy(data, [i \in 1..Len(data) |-> PriorityOf(data[i])])
               /\ task' = picked
               /\ error' = error
               /\ cpc' = IF picked = << >> \/ dryRun THEN "done" ELSE "mark"
    /\ UNCHANGED <<rateLimits, decision, result, prompt, writes, warned, child,
                   execInFlight, files,
                   process, loop>>

\* A file that holds JSON other than a queue document is returned by
\* loadTasks as it is parsed, and pickTask throws a TypeError on it, which
\* runCycle does not catch.
CycleSelect ==
    /\ cpc = "select"
    /\ IF tasksFile.state = "notqueue"
       THEN /\ taskData' = << >> /\ task' = << >>
            /\ error' = <<"type">> /\ cpc' = "thrown"
       ELSE LET data == loadTasks(tasksFile)
                picked == pickTask(data, << >>)
            IN /\ taskData' = data
               /\ task' = picked
               /\ error' = error
               /\ cpc' = IF picked = << >> \/ dryRun THEN "done" ELSE "mark"
    /\ UNCHANGED <<rateLimits, decision, result, prompt, writes, warned, child,
                   execInFlight, files,
                   process, loop>>

\* The selected task is an element of taskData: updateTaskStatus changes it
\* in place, so the cycle's `task` shows the change too.
Aliased(t, data) ==
    IF t # << >> /\ \E i \in 1..Len(data) : data[i].id = Some(t).id
    THEN <<data[CHOOSE k \in 1..Len(data) :
                    /\ data[k].id = Some(t).id
                    /\ \A j \in 1..(k - 1) : data[j].id # Some(t).id]>>
    ELSE t

\* Mutant: the queue file is read again for the transition, and a task that
\* is no longer in it is an error.
TransitionReread(status, next) ==
    LET onDisk == loadTasks(tasksFile)
        data == updateTaskStatus(taskData, Some(task).id, status)
    IN
    IF \A i \in 1..Len(onDisk) : onDisk[i].id # Some(task).id
    THEN /\ taskData' = taskData /\ task' = task
         /\ tasksFile' = tasksFile /\ error' = <<"missing">> /\ cpc' = "thrown"
    ELSE /\ taskData' = data
         /\ task' = Aliased(task, data)
         /\ \E written \in BOOLEAN :
             IF written
             THEN tasksFile' = saveTasks(data) /\ error' = error /\ cpc' = next
             ELSE tasksFile' = tasksFile /\ error' = <<"write">> /\ cpc' = "thrown"

\* Mutant: the status is changed in memory and not saved.
TransitionUnsaved(status, next) ==
    LET data == updateTaskStatus(taskData, Some(task).id, status) IN
    /\ taskData' = data
    /\ task' = Aliased(task, data)
    /\ tasksFile' = tasksFile
    /\ error' = error
    /\ cpc' = next

\* updateTaskStatus + saveTasks; writeFileSync may throw, and runCycle does
\* not catch it.
Transition(status, next) ==
    LET data == updateTaskStatus(taskData, Some(task).id, status) IN
    /\ taskData' = data
    /\ task' = Aliased(task, data)
    /\ \E written \in BOOLEAN :
        IF written
        THEN tasksFile' = saveTasks(data) /\ error' = error /\ cpc' = next
        ELSE tasksFile' = tasksFile /\ error' = <<"write">> /\ cpc' = "thrown"

\* 4. Mark as running.
CycleMarkRunning ==
    /\ cpc = "mark"
    /\ Transition("running", "exec")
    /\ UNCHANGED <<rateLimits, decision, result, prompt, writes, warned, child,
                   execInFlight,
                   historyFile, reports, context, process, loop>>

\* Mutant: the context of the first task is loaded, whatever the task.
loadFirstTaskContext(store, taskId) == store[1]

\* existsSync(contextPath) ? the trimmed content, wrapped : ''
\* (the summary saveRunContext writes is never blank).
loadLastRunContext(store, taskId) == store[taskId]

\* writeFileSync(contextPath, summary): the summary carries the time of the
\* write and the outcome of the attempt, and replaces the file.
saveRunContext(store, taskId, out, ts) ==
    [store EXCEPT ![taskId] = <<[success |-> Succeeds(out), ts |-> ts,
                                 chars |-> summaryChars(out)]>>]

\* reports/<taskId>.json on success, reports/<taskId>-error.json on failure
ReportKind(success) == IF success THEN "report" ELSE "error"

\* 5. executeTask: fullPrompt = lastContext + task.prompt, the flags, then
\* execFileSync('claude', ['-p', fullPrompt, ...]) spawns the child and blocks.
CycleExecStart ==
    /\ cpc = "exec"
    /\ prompt' = <<[lastContext |-> loadLastRunContext(context, Some(task).id),
                    prompt |-> Some(task).prompt,
                    flags |-> cliFlags(Some(task), config)]>>
    /\ execInFlight' = execInFlight + 1
    /\ cpc' = "executing"
    /\ UNCHANGED <<rateLimits, decision, taskData, task, result, writes,
                   warned, child, error,
                   files, process, loop>>

\* Mutant: a failed attempt saves no run context.
ExecutorWritesNoFailureContext(out, reportWritten, contextWritten) ==
    LET id == Some(task).id
        success == Succeeds(out)
    IN
    /\ reports' = IF reportWritten
                  THEN reports \cup {<<id, ReportKind(success)>>} ELSE reports
    /\ context' = IF contextWritten /\ success
                  THEN saveRunContext(context, id, out, cycles) ELSE context
    /\ writes' = <<[file |-> ReportKind(success), written |-> reportWritten]>>
                 \o (IF success
                     THEN <<[file |-> "context", written |-> contextWritten]>>
                     ELSE << >>)
    /\ warned' = (IF success /\ ~reportWritten THEN {"report"} ELSE {})
                 \cup (IF success /\ ~contextWritten THEN {"context"} ELSE {})

\* The report write, then saveRunContext; a write that throws is caught and
\* leaves its file as it was.  The catch of the success report and that of
\* saveRunContext log a warning, the catch of the error report logs nothing.
ExecutorWrites(out, reportWritten, contextWritten) ==
    LET id == Some(task).id
        success == Succeeds(out)
    IN
    /\ reports' = IF reportWritten
                  THEN reports \cup {<<id, ReportKind(success)>>} ELSE reports
    /\ context' = IF contextWritten
                  THEN saveRunContext(context, id, out, cycles) ELSE context
    /\ writes' = <<[file |-> ReportKind(success), written |-> reportWritten],
                   [file |-> "context", written |-> contextWritten]>>
    /\ warned' = (IF success /\ ~reportWritten THEN {"report"} ELSE {})
                 \cup (IF ~contextWritten THEN {"context"} ELSE {})

\* Mutant: a failure of the child is thrown on to runCycle.
CycleExecFinishThrows ==
    /\ cpc = "executing"
    /\ \E out \in cli, reportWritten, contextWritten \in WriteOutcomes :
        /\ child' = <<out>>
        /\ ExecutorWrites(out, reportWritten, contextWritten)
        /\ result' = IF Succeeds(out) THEN <<executeResult(out)>> ELSE << >>
        /\ cpc' = IF Succeeds(out) THEN "update" ELSE "thrown"
        /\ error' = IF Succeeds(out) THEN error ELSE <<"exec">>
    /\ execInFlight' = execInFlight - 1
    /\ UNCHANGED <<rateLimits, decision, taskData, task, prompt, tasksFile,
                   historyFile, process, loop>>

\* The child ends (exit 0, or non-zero exit / timeout / spawn error); the
\* executor parses its output, writes the report and the run context, then
\* returns.
CycleExecFinish ==
    /\ cpc = "executing"
    /\ \E out \in cli, reportWritten, contextWritten \in WriteOutcomes :
        /\ child' = <<out>>
        /\ ExecutorWrites(out, reportWritten, contextWritten)
        /\ result' = <<executeResult(out)>>
    /\ execInFlight' = execInFlight - 1
    /\ cpc' = "update"
    /\ UNCHANGED <<rateLimits, decision, taskData, task, prompt, error, tasksFile,
                   historyFile, process, loop>>

\* Mutant: the final status is set in memory and not saved.
CycleUpdateStatusUnsaved ==
    /\ cpc = "update"
    /\ TransitionUnsaved(NewStatus(Some(task), Some(result)), "append")
    /\ UNCHANGED <<rateLimits, decision, result, prompt, writes, warned, child,
                   execInFlight,
                   historyFile, reports, context, process, loop>>

\* 6. Update status.
CycleUpdateStatus ==
    /\ cpc = "update"
    /\ Transition(NewStatus(Some(task), Some(result)), "append")
    /\ UNCHANGED <<rateLimits, decision, result, prompt, writes, warned, child,
                   execInFlight,
                   historyFile, reports, context, process, loop>>

\* Mutant: the write of the history file is not in a try block.
CycleAppendUncaught ==
    /\ cpc = "append"
    /\ \E written \in WriteOutcomes :
        IF written
        THEN /\ historyFile' = appendRecord(historyFile,
                                   [taskId |-> Some(task).id,
                                    success |-> Some(result).success])
             /\ error' = error /\ cpc' = "done"
        ELSE /\ historyFile' = historyFile
             /\ error' = <<"write">> /\ cpc' = "thrown"
    /\ UNCHANGED <<rateLimits, decision, taskData, task, result, prompt, writes,
                   warned, child, execInFlight, tasksFile, reports, context, process, loop>>

\* Mutant: only a success is logged to history.
CycleAppendSuccessOnly ==
    /\ cpc = "append"
    /\ IF historyFile.state = "notarray"
       THEN /\ historyFile' = historyFile /\ warned' = warned
            /\ error' = <<"type">> /\ cpc' = "thrown"
       ELSE /\ \E written \in WriteOutcomes :
                 /\ historyFile' =
                        IF written /\ Some(result).success
                        THEN appendRecord(historyFile,
                                 [taskId |-> Some(task).id,
                                  success |-> Some(result).success])
                        ELSE historyFile
                 /\ warned' = IF written THEN warned ELSE warned \cup {"history"}
            /\ error' = error
            /\ cpc' = "done"
    /\ UNCHANGED <<rateLimits, decision, taskData, task, result, prompt, writes,
                   child,
                   execInFlight, tasksFile, reports, context, process, loop>>

\* 7. Log to history.  A file that holds JSON other than an array makes
\* history.push throw, which nothing catches; a write that throws is caught
\* and logged, and leaves the file as it was.
CycleAppend ==
    /\ cpc = "append"
    /\ IF historyFile.state = "notarray"
       THEN /\ historyFile' = historyFile /\ warned' = warned
            /\ error' = <<"type">> /\ cpc' = "thrown"
       ELSE /\ \E written \in WriteOutcomes :
                 /\ historyFile' =
                        IF written
                        THEN appendRecord(historyFile,
                                 [taskId |-> Some(task).id,
                                  success |-> Some(result).success])
                        ELSE historyFile
                 /\ warned' = IF written THEN warned ELSE warned \cup {"history"}
            /\ error' = error
            /\ cpc' = "done"
    /\ UNCHANGED <<rateLimits, decision, taskData, task, result, prompt, writes,
                   child,
                   execInFlight, tasksFile, reports, context, process, loop>>

----------------------------------------------------------------------------
(* bin/burn.js main() and lib/scheduler.js watchLoop.  wpc is              *)
(*   "main"     main() has parsed the arguments and loaded the config      *)
(*   "top"      watchLoop is at `while (running)`                          *)
(*   "await"    the caller is at `await runCycle()`                        *)
(*   "sleep"    watchLoop is in its sleep loop                             *)
(*   "stopped"  watchLoop has returned, "exit" main() has returned         *)
(*   "dead"     the process has been killed                                *)
(*   "status"   showStatus is at `await fetchRateLimits()`                 *)

\* `await runCycle()` resumes when the cycle has returned or thrown.
AwaitSettled == cpc \in {"done", "thrown"}

\* --once (default): await runCycle(config, args.tasksPath, args.dryRun)
MainOnce ==
    /\ wpc = "main" /\ mode = "once"
    /\ CallRunCycle
    /\ wpc' = "await"
    /\ UNCHANGED <<running, sleepLeft, execInFlight, files, process>>

\* runCycle's locals end with the call.
ReturnFromCycle ==
    /\ cpc' = "idle"
    /\ rateLimits' = << >>
    /\ decision' = << >>
    /\ taskData' = << >>
    /\ task' = << >>
    /\ result' = << >>
    /\ prompt' = << >>
    /\ writes' = << >>
    /\ error' = << >>
    /\ warned' = {}
    /\ child' = << >>

\* main() returns (a throw reaches main().catch and the process exits 1).
MainExit ==
    /\ wpc = "await" /\ mode = "once"
    /\ AwaitSettled
    /\ ReturnFromCycle
    /\ wpc' = "exit"
    /\ UNCHANGED <<running, sleepLeft, cycles, execInFlight, files, process>>

\* --watch: watchLoop(() => runCycle(...), config) registers the handlers
MainWatch ==
    /\ wpc = "main" /\ mode = "watch"
    /\ wpc' = "top"
    /\ UNCHANGED <<running, sleepLeft, cycles, cpc, cycleLocals, execInFlight,
                   files, process>>

\* while (running) fails: the loop ends.
WatchStop ==
    /\ wpc = "top" /\ ~running
    /\ wpc' = "stopped"
    /\ UNCHANGED <<running, sleepLeft, cycles, cpc, cycleLocals, execInFlight,
                   files, process>>

\* isQuietHours(quietStart, quietEnd) reads the clock (new Date()) at the time
\* of the call.
QuietAt(t) == isQuietHours(config.quietHoursStart, config.quietHoursEnd, t)

\* Mutant: the quiet hours are not looked at.
WatchCycleAnyTime ==
    /\ wpc = "top" /\ running
    /\ cycles < MaxCycles
    /\ \E t \in Clock : now' = t
    /\ CallRunCycle
    /\ wpc' = "await"
    /\ UNCHANGED <<running, sleepLeft, execInFlight, files, settings>>

\* Mutant: the loop does not look at the flag before it starts a cycle.
WatchCycleDeaf ==
    /\ wpc = "top"
    /\ cycles < MaxCycles
    /\ \E t \in Clock : now' = t /\ ~QuietAt(t)
    /\ CallRunCycle
    /\ wpc' = "await"
    /\ UNCHANGED <<running, sleepLeft, execInFlight, files, settings>>

\* isQuietHours(quietStart, quietEnd) holds: the cycle is skipped.
WatchQuiet ==
    /\ wpc = "top" /\ running
    /\ \E t \in Clock : now' = t /\ QuietAt(t)
    /\ wpc' = "sleep"
    /\ sleepLeft' = SleepSlices
    /\ UNCHANGED <<running, cycles, cpc, cycleLocals, execInFlight, files, settings>>

\* Outside quiet hours: await runCycle().
WatchCycle ==
    /\ wpc = "top" /\ running
    /\ cycles < MaxCycles
    /\ \E t \in Clock : now' = t /\ ~QuietAt(t)
    /\ CallRunCycle
    /\ wpc' = "await"
    /\ UNCHANGED <<running, sleepLeft, execInFlight, files, settings>>

\* Mutant: runCycle() is not awaited.
WatchResumeNoAwait ==
    /\ wpc = "await" /\ mode = "watch"
    /\ wpc' = "sleep"
    /\ sleepLeft' = SleepSlices
    /\ UNCHANGED <<running, cycles, cpc, cycleLocals, execInFlight, files, process>>

\* Mutant: what a cycle throws is not caught and ends watchLoop.
WatchResumeRethrows ==
    /\ wpc = "await" /\ mode = "watch"
    /\ AwaitSettled
    /\ ReturnFromCycle
    /\ wpc' = IF cpc = "thrown" THEN "stopped" ELSE "sleep"
    /\ sleepLeft' = IF cpc = "thrown" THEN sleepLeft ELSE SleepSlices
    /\ UNCHANGED <<running, cycles, execInFlight, files, process>>

\* The cycle has settled (a throw is caught and logged): start the sleep.
WatchResume ==
    /\ wpc = "await" /\ mode = "watch"
    /\ AwaitSettled
    /\ ReturnFromCycle
    /\ wpc' = "sleep"
    /\ sleepLeft' = SleepSlices
    /\ UNCHANGED <<running, cycles, execInFlight, files, process>>

\* await sleep(Math.min(5_000, remaining))
WatchSleepTick ==
    /\ wpc = "sleep" /\ running /\ sleepLeft > 0
    /\ sleepLeft' = sleepLeft - 1
    /\ UNCHANGED <<wpc, running, cycles, cpc, cycleLocals, execInFlight, files,
                   process>>

\* while (running && Date.now() < endTime) fails: back to the top.
WatchWake ==
    /\ wpc = "sleep" /\ (~running \/ sleepLeft = 0)
    /\ wpc' = "top"
    /\ UNCHANGED <<running, sleepLeft, cycles, cpc, cycleLocals, execInFlight,
                   files, process>>

\* SIGINT / SIGTERM: the handler runs when the event loop is free, which is
\* while the loop awaits the fetch of a cycle or a sleep slice.
Shutdown ==
    /\ mode = "watch" /\ running
    /\ \/ wpc = "sleep"
       \/ wpc = "await" /\ cpc = "fetch"
    /\ running' = FALSE
    /\ UNCHANGED <<wpc, sleepLeft, cycles, cpc, cycleLocals, execInFlight, files,
                   process>>

Cycle ==
    \/ CycleEvaluate
    \/ CycleSelect
    \/ CycleMarkRunning
    \/ CycleExecStart
    \/ CycleExecFinish
    \/ CycleUpdateStatus
    \/ CycleAppend

Next ==
    \/ MainOnce
    \/ MainExit
    \/ MainWatch
    \/ WatchStop
    \/ WatchQuiet
    \/ WatchCycle
    \/ WatchResume
    \/ WatchSleepTick
    \/ WatchWake
    \/ Shutdown
    \/ Cycle

Spec == Init /\ [][Next]_vars

----------------------------------------------------------------------------
(* The pure functions applied to drawn inputs.                             *)

\* task = pickTask(data, availableBudget)
Pick ==
    /\ mode = "pick" /\ cpc = "input"
    /\ task' = pickTask(taskData, availableBudget)
    /\ cpc' = "done"
    /\ UNCHANGED <<rateLimits, decision, taskData, result, prompt, writes,
                   warned, child, error,
                   execInFlight, files, process, loop>>

SpecPick == InitPick /\ [][Pick]_vars

\* decision = evaluate({ rateLimits, config })
Evaluate ==
    /\ mode = "eval" /\ cpc = "input"
    /\ decision' = <<evaluate(rateLimits, config)>>
    /\ cpc' = "done"
    /\ UNCHANGED <<rateLimits, taskData, task, result, prompt, writes, warned, child,
                   error,
                   execInFlight, files, process, loop>>

SpecEval == InitEval /\ [][Evaluate]_vars

\* evaluate({ rateLimits, config }) is called again with the same snapshot
\* and the same config, at the same time or later in the day.
EvaluateAgain ==
    /\ mode = "eval" /\ cpc = "done"
    /\ cycles < MaxCycles
    /\ \E t \in Clock :
        /\ t >= now
        /\ now' = t
    /\ cycles' = cycles + 1
    /\ UNCHANGED <<cpc, rateLimits, taskData, task, result, prompt, writes, warned,
                   child, error, execInFlight, files, settings, wpc, running,
                   sleepLeft>>
    /\ decision' = <<evaluate(rateLimits, config)>>'

SpecPure == InitPure /\ [][Evaluate \/ EvaluateAgain]_vars

\* updateTaskStatus(data, taskId, status): it changes data in place and
\* has no statement that throws.
UpdateStatus ==
    /\ mode = "update" /\ cpc = "input"
    /\ taskData' = updateTaskStatus(taskData, Some(args).taskId, Some(args).status)
    /\ cpc' = "done"
    /\ UNCHANGED <<rateLimits, decision, task, result, prompt, writes, warned, child,
                   error,
                   execInFlight, files, process, loop>>

SpecUpdate == InitUpdate /\ [][UpdateStatus]_vars

\* The cycle controller and the watch loop on a disk that can reject the
\* writes of reports, contexts and history.
SpecExec == InitExec /\ [][Next]_vars

\* The cycle controller and the watch loop, with or without --dry-run, on a
\* disk that can reject any write.
SpecRecord == InitRecord /\ [][Next]_vars

\* loadTasks and pickTask (step 3 of runCycle) applied to a queue file of any
\* content.
SpecLoad == InitLoad /\ [][CycleSelect \/ MainExit]_vars

\* --status: showStatus(config, args.tasksPath) asks for the rate limits.
ShowStatusFetch ==
    /\ mode = "status" /\ wpc = "main"
    /\ \E outcome \in FetchOutcomes : rateLimits' = fetchRateLimits(outcome)
    /\ wpc' = "status"
    /\ UNCHANGED <<decision, taskData, task, result, prompt, writes, error, warned,
                   child, running, sleepLeft, cycles, cpc, execInFlight, files,
                   process>>

\* Mutant: the dashboard saves the queue it has loaded.
ShowStatusRenderSaves ==
    /\ wpc = "status"
    /\ decision' = <<evaluate(rateLimits, config)>>
    /\ taskData' = loadTasks(tasksFile)
    /\ tasksFile' = saveTasks(loadTasks(tasksFile))
    /\ error' = error
    /\ wpc' = "exit"
    /\ UNCHANGED <<rateLimits, task, result, prompt, writes, warned, child,
                   running, sleepLeft, cycles, cpc, execInFlight, historyFile,
                   reports, context, process>>

\* The rate limits are printed; decision = evaluate({ rateLimits, config }),
\* loadTasks and getTaskSummary, getRecentHistory, each printed; then
\* process.exit(0).  A queue file or a history file that holds JSON of
\* another shape makes the summary throw, and main().catch exits with 1.
ShowStatusRender ==
    /\ wpc = "status"
    /\ decision' = <<evaluate(rateLimits, config)>>
    /\ IF tasksFile.state = "notqueue"
       THEN taskData' = << >> /\ error' = <<"type">>
       ELSE /\ taskData' = loadTasks(tasksFile)
            /\ error' = IF historyFile.state = "notarray" THEN <<"type">> ELSE error
    /\ wpc' = "exit"
    /\ UNCHANGED <<rateLimits, task, result, prompt, writes, warned, child,
                   running, sleepLeft, cycles, cpc, execInFlight, files, process>>

SpecStatus == InitStatus /\ [][ShowStatusFetch \/ ShowStatusRender]_vars

\* setupTaskPermissions: remember whether the file is there and what it
\* holds, then write base + task permissions over it (a write that throws
\* is caught and leaves the file as it was).
setupTaskPermissions(settingsFile, written) ==
    [file |-> IF written THEN "scratch" ELSE settingsFile,
     original |-> <<settingsFile>>]

\* cleanupPermissions: if (hadFile && originalContent !== null) write the
\* original content back (a write that throws is caught and ignored);
\* a file that was not there before is not removed.
cleanupPermissions(p, written) ==
    [p EXCEPT !.file = IF Some(p.original) # "absent" /\ written
                       THEN Some(p.original) ELSE @]

\* executeTask of the executor with task permissions, up to execFileSync.
PermissionsExecStart ==
    /\ cpc = "exec"
    /\ \E written \in WriteOutcomes :
        permissions' = setupTaskPermissions(permissions.file, written)
    /\ prompt' = <<[lastContext |-> loadLastRunContext(context, Some(task).id),
                    prompt |-> Some(task).prompt,
                    flags |-> cliFlags(Some(task), config)]>>
    /\ execInFlight' = execInFlight + 1
    /\ cpc' = "executing"
    /\ UNCHANGED <<rateLimits, decision, taskData, task, result, writes,
                   warned, child, error, files, mode, args, dryRun, config,
                   availableBudget, usage, quiet, diskFaults, cli, outside, now,
                   loop>>

\* The child ends; the executor writes the report and the run context,
\* calls cleanupPermissions and returns.
PermissionsExecFinish ==
    /\ cpc = "executing"
    /\ \E out \in cli, reportWritten, contextWritten \in WriteOutcomes :
        /\ child' = <<out>>
        /\ ExecutorWrites(out, reportWritten, contextWritten)
        /\ result' = <<executeResult(out)>>
    /\ \E written \in WriteOutcomes :
        permissions' = cleanupPermissions(permissions, written)
    /\ execInFlight' = execInFlight - 1
    /\ cpc' = "update"
    /\ UNCHANGED <<rateLimits, decision, taskData, task, prompt, error, tasksFile,
                   historyFile, mode, args, dryRun, config, availableBudget, usage,
                   quiet, diskFaults, cli, outside, now, loop>>

\* One cycle of the executor with task permissions.
PermissionsNext ==
    \/ CycleSelect
    \/ CycleMarkRunning
    \/ PermissionsExecStart
    \/ PermissionsExecFinish
    \/ CycleUpdateStatus
    \/ CycleAppend
    \/ MainExit

SpecPermissions == InitPermissions /\ [][PermissionsNext]_vars

\* executeTask builds the command line of the child.
SpecArgs == InitArgs /\ [][CycleExecStart]_vars

\* One cycle from the selection on, with a CLI that can end in any way.
OutputNext ==
    \/ CycleSelect
    \/ CycleMarkRunning
    \/ CycleExecStart
    \/ CycleExecFinish
    \/ CycleUpdateStatus
    \/ CycleAppend
    \/ MainExit

SpecOutput == InitOutput /\ [][OutputNext]_vars

\* appendRecord (step 7 of runCycle) applied to a history file of any content.
SpecHistory == InitHistory /\ [][CycleAppend \/ MainExit]_vars

\* decision = evaluate({ block, weeklyCost, config }) of the billing-block model
EvaluateBilling ==
    /\ mode = "billing" /\ cpc = "input"
    /\ decision' = <<evaluateBilling(usage.block, usage.weeklyCost, config)>>
    /\ cycles' = 1
    /\ cpc' = "done"
    /\ UNCHANGED <<rateLimits, taskData, task, result, prompt, writes, warned, child,
                   error,
                   execInFlight, files, process, wpc, running, sleepLeft>>

\* The next evaluation: the telemetry has changed (or has not), the config
\* has not.
ReevaluateBilling ==
    /\ mode = "billing" /\ cpc = "done"
    /\ cycles < MaxCycles
    /\ \E u \in Usages :
        /\ usage' = u
        /\ decision' = <<evaluateBilling(u.block, u.weeklyCost, config)>>
    /\ cycles' = cycles + 1
    /\ UNCHANGED <<cpc, rateLimits, taskData, task, result, prompt, writes,
                   warned, child, error,
                   execInFlight, files, mode, args, dryRun, config, availableBudget,
                   now, quiet, diskFaults, cli, permissions, outside, wpc, running, sleepLeft>>

\* weeklyCost = getWeeklyCost(...)
FetchWeeklyCost ==
    /\ mode = "billing" /\ cpc = "fetch"
    /\ usage' = [usage EXCEPT !.weeklyCost = getWeeklyCost(usage.weekly)]
    /\ cpc' = "input"
    /\ UNCHANGED <<cycleLocals, execInFlight, files, mode, args, dryRun, config,
                   availableBudget, quiet, diskFaults, cli, permissions, outside, now, loop>>

\* The weekly cost is fetched and handed to the billing-block evaluate.
SpecTelemetry == InitTelemetry /\ [][FetchWeeklyCost \/ EvaluateBilling]_vars

SpecBilling == InitBilling /\ [][EvaluateBilling \/ ReevaluateBilling]_vars

\* quiet = isQuietHours(watch.quietHoursStart, watch.quietHoursEnd)
EvaluateQuiet ==
    /\ mode = "quiet" /\ cpc = "input"
    /\ quiet' = <<isQuietHours(config.quietHoursStart, config.quietHoursEnd, now)>>
    /\ cpc' = "done"
    /\ UNCHANGED <<cycleLocals, execInFlight, files, mode, args, dryRun, config,
                   availableBudget, usage, now, diskFaults, cli, permissions, outside, loop>>

SpecQuiet == InitQuiet /\ [][EvaluateQuiet]_vars

\* The process dies where it is (a crash, SIGKILL, power loss): its memory
\* is gone, the files stay as they are.  A child of execFileSync is no
\* longer a child of this program, whether it lives on or not.
Kill ==
    /\ wpc \notin {"exit", "stopped", "dead"}
    /\ Len(outside) < MaxKills
    /\ outside' = Append(outside, [what |-> "kill", at |-> cpc, task |-> task])
    /\ wpc' = "dead"
    /\ ReturnFromCycle
    /\ execInFlight' = 0
    /\ running' = TRUE
    /\ sleepLeft' = 0
    /\ UNCHANGED <<cycles, files, mode, args, dryRun, config, availableBudget,
                   usage, quiet, diskFaults, cli, permissions, now>>

\* The program is started again, with the same arguments: main().
Restart ==
    /\ wpc = "dead"
    /\ wpc' = "main"
    /\ UNCHANGED <<running, sleepLeft, cycles, cpc, cycleLocals, execInFlight,
                   files, process>>

\* The operator edits the queue file while no process runs: a task that
\* shows 'running' is set back to 'on'.
OperatorReset ==
    /\ wpc = "dead"
    /\ tasksFile.state = "ok"
    /\ \E i \in 1..Len(tasksFile.tasks) :
        /\ tasksFile.tasks[i].status = "running"
        /\ tasksFile' = [tasksFile EXCEPT !.tasks[i].status = "on"]
    /\ UNCHANGED <<running, sleepLeft, cycles, wpc, cpc, cycleLocals, execInFlight,
                   historyFile, reports, context, process>>

\* The tasks of a queue without the task of this id.
Without(tasks, id) == SelectSeq(tasks, LAMBDA t : t.id # id)

\* While the child runs, the operator edits the queue file: the task being
\* executed is taken out of it, or the file is deleted.
ExternalEdit ==
    /\ cpc = "executing"
    /\ Len(outside) < MaxEdits
    /\ \/ /\ tasksFile.state = "ok"
          /\ tasksFile' = [tasksFile EXCEPT !.tasks = Without(@, Some(task).id)]
       \/ tasksFile' = [state |-> "missing", tasks |-> << >>]
    /\ outside' = Append(outside, [what |-> "edit", at |-> cpc, task |-> task])
    /\ UNCHANGED <<loop, cpc, cycleLocals, execInFlight, historyFile, reports,
                   context, mode, args, dryRun, config, availableBudget, usage,
                   quiet, diskFaults, cli, permissions, now>>

\* The cycle controller and the watch loop beside an operator who edits the
\* queue file.
SpecEdit == InitEnv /\ [][Next \/ ExternalEdit]_vars

\* The same, on queues of tasks with and without a priority.
SpecFrame == InitFrame /\ [][Next \/ ExternalEdit]_vars

\* The cycle controller and the watch loop in a process that can be killed
\* and started again.
SpecCrash == InitEnv /\ [][Next \/ Kill \/ Restart \/ OperatorReset]_vars

\* The steps of a process in --watch mode.
WatchNext ==
    \/ MainWatch
    \/ WatchStop
    \/ WatchQuiet
    \/ WatchCycle
    \/ WatchResume
    \/ WatchSleepTick
    \/ WatchWake
    \/ Shutdown
    \/ Cycle

\* WatchCycle of a loop that runs for ever: the count of its cycles stays
\* at MaxDrainCycles once it is there.
DrainCycle ==
    /\ wpc = "top" /\ running
    /\ \E t \in Clock : now' = t /\ ~QuietAt(t)
    /\ cpc' = "fetch"
    /\ cycles' = IF cycles < MaxDrainCycles THEN cycles + 1 ELSE cycles
    /\ rateLimits' = << >>
    /\ decision' = << >>
    /\ taskData' = << >>
    /\ task' = << >>
    /\ result' = << >>
    /\ prompt' = << >>
    /\ writes' = << >>
    /\ error' = << >>
    /\ warned' = {}
    /\ child' = << >>
    /\ wpc' = "await"
    /\ UNCHANGED <<running, sleepLeft, execInFlight, files, settings>>

\* The steps of a watch loop that no signal reaches.
DrainNext ==
    \/ MainWatch
    \/ DrainCycle
    \/ WatchResume
    \/ WatchSleepTick
    \/ WatchWake
    \/ Cycle

DrainFairness ==
    /\ WF_vars(Cycle)
    /\ WF_vars(MainWatch)
    /\ WF_vars(DrainCycle)
    /\ WF_vars(WatchResume)
    /\ WF_vars(WatchSleepTick)
    /\ WF_vars(WatchWake)

SpecDrain == InitDrain /\ [][DrainNext]_vars /\ DrainFairness

\* The event loop runs what is ready: the request of fetchRateLimits settles,
\* the child of execFileSync ends (at the latest on its 30-minute timeout),
\* the synchronous steps of runCycle and watchLoop run, a timer fires.
WatchFairness ==
    /\ WF_vars(Cycle)
    /\ WF_vars(WatchResume)
    /\ WF_vars(WatchSleepTick)
    /\ WF_vars(WatchWake)
    /\ WF_vars(WatchStop)

SpecWatch == InitWatch /\ [][WatchNext]_vars /\ WatchFairness

----------------------------------------------------------------------------
(* Properties of the cycle controller and the watch loop (Spec).           *)

\* The status the queue file shows for task id, if the file shows the task.
FileStatus(id) ==
    IF tasksFile.state = "ok" /\ \E i \in 1..Len(tasksFile.tasks) : tasksFile.tasks[i].id = id
    THEN <<tasksFile.tasks[CHOOSE i \in 1..Len(tasksFile.tasks) :
                               tasksFile.tasks[i].id = id].status>>
    ELSE << >>

\* The step starts a child process of the executor.
ExecutorInvoked == execInFlight' > execInFlight

\* The step starts a cycle.
CycleStarted == cycles' > cycles

\* C1: a cycle run with dryRun=true never leaves task selection for the
\* first status transition, never changes the queue file, the history file,
\* the reports or the run contexts, and never invokes the executor, whatever
\* the queue and the decision.
C1_DryRunHasNoSideEffects ==
    /\ [](dryRun => /\ cpc \notin {"mark", "exec", "executing", "update", "append"}
                    /\ execInFlight = 0
                    /\ taskData \in {<< >>, loadTasks(tasksFile)})
    /\ [][dryRun => /\ UNCHANGED <<tasksFile, historyFile, reports, context>>
                    /\ ~ExecutorInvoked]_vars

\* A dry run has selected an eligible task under a decision to run, and
\* has returned.
C1_Witness ==
    /\ dryRun /\ cpc = "done"
    /\ decision # << >> /\ Some(decision).shouldRun
    /\ task # << >> /\ Some(task).status = "on"

\* C2: every status transition of a cycle is in the queue file before the
\* next step: while the cycle is between its two transitions or past them,
\* the file holds the in-memory queue; the executor is invoked only with
\* 'running' in the file; the history record is appended only with the
\* final status (done / on / failed) in the file.
C2_TransitionsPersistedFirst ==
    /\ [](cpc \in {"exec", "executing", "update", "append"}
            => tasksFile = saveTasks(taskData))
    /\ [][ExecutorInvoked => FileStatus(Some(task).id) = <<"running">>]_vars
    /\ [][historyFile' # historyFile
            => /\ FileStatus(Some(task).id) = <<NewStatus(Some(task), Some(result))>>
               /\ FileStatus(Some(task).id) # <<"running">>]_vars

\* A cycle has executed a task, saved its final status and appended the
\* history record.
C2_Witness ==
    /\ cpc = "done" /\ result # << >>
    /\ Len(historyFile.records) > 0
    /\ FileStatus(Some(task).id) \in {<<"done">>, <<"on">>, <<"failed">>}

\* The change from queue old to queue new is one permitted transition of
\* the selected task and nothing else.
OnlySelectedTransition(old, new) ==
    /\ task # << >> /\ Len(new) = Len(old)
    /\ \E i \in 1..Len(old) :
        /\ old[i].id = Some(task).id
        /\ new = [old EXCEPT ![i].status = new[i].status]
        /\ \/ old[i].status = "on" /\ new[i].status = "running" /\ result = << >>
           \/ /\ old[i].status = "running" /\ result # << >>
              /\ \/ /\ new[i].status = "done"
                    /\ Some(result).success /\ ~old[i].repeat
                 \/ /\ new[i].status = "on"
                    /\ Some(result).success /\ old[i].repeat
                 \/ /\ new[i].status = "failed"
                    /\ ~Some(result).success

\* C3: every change the program makes to the queue, in the file and in
\* memory after loading it, is on -> running of the selected task, or
\* running -> done (success, repeat=false), running -> on (success,
\* repeat=true) or running -> failed (failure) of that task: no other task
\* and no other field changes, and no other transition is made.
C3_OnlyLifecycleTransitions ==
    /\ [][tasksFile' # tasksFile
            => /\ tasksFile.state = "ok" /\ tasksFile'.state = "ok"
               /\ OnlySelectedTransition(tasksFile.tasks, tasksFile'.tasks)]_vars
    /\ [][(taskData' # taskData /\ cpc \notin {"select", "done", "thrown"})
            => OnlySelectedTransition(taskData, taskData')]_vars

\* A repeating task has gone on -> running -> on beside another task, and
\* the file shows it.
C3_Witness ==
    /\ cpc = "append" /\ Len(taskData) >= 2
    /\ Some(result).success /\ Some(task).repeat
    /\ FileStatus(Some(task).id) = <<"on">>

\* C4: the watch loop (and main) starts a cycle only when no cycle is
\* outstanding, a cycle invokes the executor at most once, and at most one
\* executor child is in flight at any time.
C4_OneTaskAtATime ==
    /\ [](execInFlight <= 1)
    /\ [][CycleStarted => cpc = "idle"]_vars
    /\ [][ExecutorInvoked => (execInFlight = 0 /\ result = << >>)]_vars

\* The executor runs in the second cycle of a watch loop.
C4_Witness ==
    /\ mode = "watch" /\ cycles = 2
    /\ cpc = "executing" /\ execInFlight = 1

----------------------------------------------------------------------------
(* Properties of pickTask (SpecPick).                                      *)

\* Task t passes the status filter and, when a ceiling is supplied, the
\* budget filter.
Eligible(t) ==
    /\ t.status = "on"
    /\ \/ availableBudget = << >>
       \/ t.maxBudgetUSD = << >>
       \/ Some(t.maxBudgetUSD) <= Some(availableBudget)

EligibleAt == {i \in 1..Len(taskData) : Eligible(taskData[i])}

\* The priority of a task, a missing one counting as 999.
Rank(t) == IF t.priority = << >> THEN 999 ELSE Some(t.priority)

\* C5: pickTask returns a task of the queue whose status is 'on' and, when
\* a ceiling is supplied, whose maxBudgetUSD does not exceed the ceiling;
\* it returns null exactly when no task of the queue passes both filters.
C5_PickOnlyEligible ==
    cpc = "done" =>
        /\ task # << >> =>
            /\ \E i \in 1..Len(taskData) : taskData[i] = Some(task)
            /\ Some(task).status = "on"
            /\ (availableBudget # << >> /\ Some(task).maxBudgetUSD # << >>)
                   => Some(Some(task).maxBudgetUSD) <= Some(availableBudget)
        /\ task = << >> <=> EligibleAt = {}

\* pickTask has passed over a task that is on and over the ceiling, and
\* returned another.
C5_Witness ==
    /\ cpc = "done" /\ task # << >> /\ availableBudget # << >>
    /\ \E i \in 1..Len(taskData) :
        /\ taskData[i].status = "on"
        /\ taskData[i].maxBudgetUSD # << >>
        /\ Some(taskData[i].maxBudgetUSD) > Some(availableBudget)
        /\ taskData[i].id < Some(task).id

\* C6: the task pickTask returns has the minimum priority value among the
\* eligible tasks (a missing priority counting as 999), and is the first
\* of the queue among the eligible tasks with that minimum.
C6_PickMinPriorityFirst ==
    (cpc = "done" /\ EligibleAt # {}) =>
        \E i \in EligibleAt :
            /\ Some(task) = taskData[i]
            /\ \A j \in EligibleAt : Rank(taskData[i]) <= Rank(taskData[j])
            /\ \A j \in EligibleAt :
                   Rank(taskData[j]) = Rank(taskData[i]) => i <= j

\* Two eligible tasks tie on the minimum, one by a missing priority and one
\* by 999; the first of the two is returned.
C6_Witness ==
    /\ cpc = "done" /\ task # << >>
    /\ \E i, j \in EligibleAt :
        /\ i < j
        /\ taskData[i].priority # taskData[j].priority
        /\ Rank(taskData[i]) = Rank(taskData[j])
        /\ \A k \in EligibleAt : Rank(taskData[i]) <= Rank(taskData[k])
        /\ Some(task) = taskData[i]

----------------------------------------------------------------------------
(* Properties of the rate-limit evaluate (SpecEval).                       *)

\* Window w has a status, and it is not 'allowed'.
Offending(w) == w.status \notin {<< >>, <<"allowed">>}

\* The positions of the offending windows of snapshot s.
OffendingAt(s) == {i \in 1..Len(s.windows) : Offending(s.windows[i])}

First(S) == CHOOSE i \in S : \A j \in S : i <= j

\* The utilization of a window, a missing one counting as 0.
Used(w) == IF w.utilization = << >> THEN 0 ELSE Some(w.utilization)

\* The snapshot designates a window that is among its windows.
DesignatedAt(s) == {i \in 1..Len(s.windows) : <<s.windows[i].name>> = s.claim}

\* The first window of the highest utilization.
MaxUsedAt(s) ==
    First({i \in 1..Len(s.windows) :
              \A j \in 1..Len(s.windows) : Used(s.windows[j]) <= Used(s.windows[i])})

\* The binding window: the designated window if it is among the windows,
\* else the first window of the highest utilization.
Binding(s) ==
    IF DesignatedAt(s) # {} THEN s.windows[First(DesignatedAt(s))]
    ELSE s.windows[MaxUsedAt(s)]

Threshold == IF config.maxUtilization = << >> THEN 80 ELSE Some(config.maxUtilization)

\* evaluate has returned for a present snapshot.
Evaluated == cpc = "done" /\ rateLimits # << >>

\* The snapshot passes the checks before the threshold check: it is no 429,
\* it has windows, and none of them is offending.
Unblocked(s) ==
    /\ s.statusCode # 429
    /\ Len(s.windows) > 0
    /\ OffendingAt(s) = {}

\* C7 as stated: whenever a window of the snapshot is offending, evaluate
\* returns shouldRun=false and bindingWindow = the first offending window.
C7_Original ==
    (Evaluated /\ OffendingAt(Some(rateLimits)) # {}) =>
        LET s == Some(rateLimits) IN
        /\ ~Some(decision).shouldRun
        /\ Some(decision).bindingWindow = <<s.windows[First(OffendingAt(s))].name>>

\* C7 as amended: whenever a window of the snapshot is offending, evaluate
\* returns shouldRun=false; if the snapshot's status code is not 429,
\* bindingWindow and utilization are those of the first offending window,
\* and if it is 429, bindingWindow and utilization are null.
C7_BlockedWindowSkips ==
    (Evaluated /\ OffendingAt(Some(rateLimits)) # {}) =>
        LET s == Some(rateLimits)
            w == s.windows[First(OffendingAt(s))]
        IN /\ ~Some(decision).shouldRun
           /\ s.statusCode # 429 =>
                /\ Some(decision).bindingWindow = <<w.name>>
                /\ Some(decision).utilization = w.utilization
           /\ s.statusCode = 429 =>
                /\ Some(decision).bindingWindow = << >>
                /\ Some(decision).utilization = << >>

\* A snapshot that is no 429 has two offending windows, and the decision
\* names the first.
C7_Witness ==
    /\ Evaluated
    /\ LET s == Some(rateLimits) IN
        /\ s.statusCode # 429
        /\ Cardinality(OffendingAt(s)) = 2
        /\ Some(decision).bindingWindow = <<s.windows[First(OffendingAt(s))].name>>

\* The checks of evaluate that fail on the inputs, by their place in the
\* order: 1 snapshot absent, 2 status 429, 3 no windows, 4 some window not
\* allowed, 5 binding-window utilization at or above the threshold.
FailedChecks ==
    (IF rateLimits = << >> THEN {1} ELSE {})
    \cup (IF rateLimits # << >> /\ Some(rateLimits).statusCode = 429 THEN {2} ELSE {})
    \cup (IF rateLimits # << >> /\ Len(Some(rateLimits).windows) = 0 THEN {3} ELSE {})
    \cup (IF rateLimits # << >> /\ OffendingAt(Some(rateLimits)) # {} THEN {4} ELSE {})
    \cup (IF /\ rateLimits # << >> /\ Len(Some(rateLimits).windows) > 0
             /\ Used(Binding(Some(rateLimits))) >= Threshold
          THEN {5} ELSE {})

VerdictOf ==
    <<"fetch_failed", "rate_limited", "no_windows", "window_blocked", "well_used">>

\* C8: the skip verdict of evaluate is that of the first check, in the
\* order absent / 429 / no windows / window not allowed / utilization at or
\* above the threshold, that fails; evaluate returns shouldRun=true exactly
\* when no check fails.
C8_FirstFailingCheckDecides ==
    cpc = "done" =>
        /\ Some(decision).shouldRun <=> FailedChecks = {}
        /\ FailedChecks # {} => Some(decision).reason = VerdictOf[First(FailedChecks)]
        /\ FailedChecks = {} => Some(decision).reason = "capacity_available"

\* A 429 snapshot also has an offending window and a binding window above
\* the threshold: the verdict is that of the 429 check.
C8_Witness ==
    /\ cpc = "done"
    /\ {2, 4, 5} \subseteq FailedChecks
    /\ Some(decision).reason = "rate_limited"

\* Every window of snapshot s carries the status 'allowed'.
AllAllowed(s) == \A i \in 1..Len(s.windows) : s.windows[i].status = <<"allowed">>

\* C9 as stated: on a snapshot that is no 429 and whose windows are all
\* allowed, evaluate returns shouldRun=true exactly when the binding window
\* has a utilization strictly below the threshold, and the Decision carries
\* the binding window's name and utilization.
C9_Original ==
    (Evaluated /\ Unblocked(Some(rateLimits)) /\ AllAllowed(Some(rateLimits))) =>
        LET b == Binding(Some(rateLimits)) IN
        /\ Some(decision).shouldRun <=>
               (b.utilization # << >> /\ Some(b.utilization) < Threshold)
        /\ Some(decision).bindingWindow = <<b.name>>
        /\ Some(decision).utilization = b.utilization

\* C9 as amended: the same, with a binding window that has no utilization
\* compared, and reported in the Decision, as utilization 0.
C9_ThresholdDecides ==
    (Evaluated /\ Unblocked(Some(rateLimits))) =>
        LET b == Binding(Some(rateLimits)) IN
        /\ Some(decision).shouldRun <=> Used(b) < Threshold
        /\ Some(decision).bindingWindow = <<b.name>>
        /\ Some(decision).utilization = <<Used(b)>>

\* The binding window's utilization equals the default threshold, and the
\* decision is to skip.
C9_Witness ==
    /\ Evaluated /\ Unblocked(Some(rateLimits))
    /\ config.maxUtilization = << >>
    /\ Binding(Some(rateLimits)).utilization = <<80>>
    /\ ~Some(decision).shouldRun
    /\ Some(decision).utilization = <<80>>

\* C10 as stated: on an unblocked snapshot the binding window is the one
\* the snapshot designates when it designates one, and otherwise a window
\* of the maximum utilization.
C10_Original ==
    (Evaluated /\ Unblocked(Some(rateLimits))) =>
        LET s == Some(rateLimits) IN
        /\ s.claim # << >> => Some(decision).bindingWindow = s.claim
        /\ s.claim = << >> =>
               \E i \in 1..Len(s.windows) :
                   /\ Some(decision).bindingWindow = <<s.windows[i].name>>
                   /\ \A j \in 1..Len(s.windows) :
                          Used(s.windows[j]) <= Used(s.windows[i])

\* C10 as amended: on an unblocked snapshot the binding window is the
\* designated window when the snapshot designates one of its windows;
\* otherwise (no designation, or a designation that names none of the
\* windows) it is the first window of the maximum utilization, a missing
\* utilization counting as 0.
C10_BindingWindow ==
    (Evaluated /\ Unblocked(Some(rateLimits))) =>
        LET s == Some(rateLimits) IN
        /\ DesignatedAt(s) # {} => Some(decision).bindingWindow = s.claim
        /\ DesignatedAt(s) = {} =>
               Some(decision).bindingWindow = <<s.windows[MaxUsedAt(s)].name>>

\* The snapshot designates a window it does not have; the decision names
\* the second of its two windows, which has the higher utilization.
C10_Witness ==
    /\ Evaluated /\ Unblocked(Some(rateLimits))
    /\ LET s == Some(rateLimits) IN
        /\ s.claim # << >> /\ DesignatedAt(s) = {}
        /\ Len(s.windows) = 2
        /\ Used(s.windows[1]) < Used(s.windows[2])
        /\ Some(decision).bindingWindow = <<s.windows[2].name>>

----------------------------------------------------------------------------
(* Properties of the billing-block evaluate (SpecBilling).                 *)

\* The billing-block evaluate has returned.
BillingDone == mode = "billing" /\ cpc = "done"

MinRemainingOf(cfg) ==
    IF cfg.minRemainingMinutes = << >> THEN DefaultMinRemainingMinutes
    ELSE Some(cfg.minRemainingMinutes)

MaxBlockCostOf(cfg) ==
    IF cfg.maxBlockCostUSD = << >> THEN DefaultMaxBlockCostUSD
    ELSE Some(cfg.maxBlockCostUSD)

WeeklyBudgetOf(cfg) ==
    IF cfg.weeklyBudgetUSD = << >> THEN DefaultWeeklyBudgetUSD
    ELSE Some(cfg.weeklyBudgetUSD)

\* C11: with an active block that has fewer minutes left than
\* minRemainingMinutes, the billing-block evaluate returns shouldRun=false,
\* whatever the block cost and the weekly cost.
C11_ShortBlockSkips ==
    (/\ BillingDone
     /\ usage.block # << >>
     /\ Some(usage.block).remainingMinutes < MinRemainingOf(config))
        => ~Some(decision).shouldRun

\* A block with 59 minutes left, no cost at all and the default thresholds
\* is skipped.
C11_Witness ==
    /\ BillingDone
    /\ usage.block # << >>
    /\ config.minRemainingMinutes = << >>
    /\ Some(usage.block).remainingMinutes = DefaultMinRemainingMinutes - 1
    /\ Some(usage.block).totalCost = 0
    /\ usage.weeklyCost = 0
    /\ ~Some(decision).shouldRun

\* The checks of the billing-block evaluate that fail on the inputs, by
\* their place in the order: 1 no active block, 2 too few minutes left,
\* 3 block cost above the maximum, 4 weekly cost at or above the budget.
FailedBillingChecks ==
    (IF usage.block = << >> THEN {1} ELSE {})
    \cup (IF /\ usage.block # << >>
             /\ Some(usage.block).remainingMinutes < MinRemainingOf(config)
          THEN {2} ELSE {})
    \cup (IF /\ usage.block # << >>
             /\ Some(usage.block).totalCost > MaxBlockCostOf(config)
          THEN {3} ELSE {})
    \cup (IF usage.weeklyCost >= WeeklyBudgetOf(config) THEN {4} ELSE {})

BillingVerdictOf == <<"no_block", "too_little_time", "block_well_used", "week_spent">>

\* What the week and the block leave, whichever is less.
BudgetLeft ==
    LET fromWeekly == WeeklyBudgetOf(config) - usage.weeklyCost
        fromBlock == MaxBlockCostOf(config) - Some(usage.block).totalCost
    IN IF fromWeekly <= fromBlock THEN fromWeekly ELSE fromBlock

\* C12: the verdict of the billing-block evaluate is that of the first
\* check, in the order no block / too few minutes / block cost above the
\* maximum / weekly cost at or above the budget, that fails, with
\* availableBudget 0; if none fails it returns shouldRun=true with
\* availableBudget the whole number of cents nearest to
\* min(weeklyBudgetUSD - weeklyCost, maxBlockCostUSD - block.totalCost).
C12_BillingChecksInOrder ==
    BillingDone =>
        LET d == Some(decision) IN
        /\ d.shouldRun <=> FailedBillingChecks = {}
        /\ FailedBillingChecks # {} =>
               /\ d.reason = BillingVerdictOf[First(FailedBillingChecks)]
               /\ d.availableBudget = 0
        /\ FailedBillingChecks = {} =>
               /\ d.availableBudget % 10 = 0
               /\ 2 * (d.availableBudget - BudgetLeft) <= 10
               /\ 2 * (BudgetLeft - d.availableBudget) <= 10

\* The block cost is above the maximum and the weekly cost above the
\* budget: the verdict is that of the block check, with no budget.
C12_Witness ==
    /\ BillingDone
    /\ {3, 4} \subseteq FailedBillingChecks
    /\ 2 \notin FailedBillingChecks
    /\ Some(decision).reason = "block_well_used"
    /\ Some(decision).availableBudget = 0

\* The telemetry of the next evaluation differs from this one's at most by
\* a lower weekly cost and a lower block cost.
CostsNotRaised ==
    /\ usage'.weeklyCost <= usage.weeklyCost
    /\ (usage.block = << >>) <=> (usage'.block = << >>)
    /\ usage.block # << >> =>
           /\ Some(usage'.block).remainingMinutes = Some(usage.block).remainingMinutes
           /\ Some(usage'.block).totalCost <= Some(usage.block).totalCost

\* C13: from one evaluation to the next with all else fixed, a weekly cost
\* or block cost that is lower (or the same) never gives a lower
\* availableBudget, whether the outcomes are skip or run; the same inputs
\* give the same Decision.
C13_BudgetMonotonic ==
    /\ [][(BillingDone /\ CostsNotRaised)
            => Some(decision').availableBudget >= Some(decision).availableBudget]_vars
    /\ [][(BillingDone /\ usage' = usage) => decision' = decision]_vars
    /\ [](BillingDone =>
            decision = <<evaluateBilling(usage.block, usage.weeklyCost, config)>>)

\* A further evaluation has returned a budget of one cent (7 thousandths
\* left of the week, rounded).
C13_Witness ==
    /\ BillingDone /\ cycles > 1
    /\ Some(decision).shouldRun
    /\ BudgetLeft = 7
    /\ Some(decision).availableBudget = 10

----------------------------------------------------------------------------
(* Properties of isQuietHours (SpecQuiet).                                 *)

\* isQuietHours has returned.
QuietDone == mode = "quiet" /\ cpc = "done"

\* The value of a field of one or two digits.
TwoDigits(f) == IF Len(f) = 2 THEN 10 * f[1] + f[2] ELSE f[1]

\* The minute of the day a time "HH:MM" or "HH" names.
MinuteOfDay(t) == 60 * TwoDigits(t[1]) + (IF Len(t) = 2 THEN TwoDigits(t[2]) ELSE 0)

\* The suppressed minutes of the day for quiet hours from start to end.
Suppressed(start, end) ==
    IF start <= end THEN start..(end - 1)
    ELSE start..(MinutesPerDay - 1) \cup 0..(end - 1)

ElevenPm == << <<2, 3>>, <<0, 0>> >>
SevenAm == << <<0, 7>>, <<0, 0>> >>

\* C15: at every minute m of the day and for every start and end time,
\* isQuietHours returns true exactly when m is in [start, end) if
\* start <= end and in [start, 1440) or [0, end) if start > end; it returns
\* false when both bounds are null; quiet hours 23:00-07:00 suppress 23:30,
\* 02:00 and 06:59 and not 07:00, 12:00 and 22:59.
C15_QuietHoursInterval ==
    QuietDone =>
        /\ (config.quietHoursStart # << >> /\ config.quietHoursEnd # << >>) =>
               (Some(quiet) <=>
                    now \in Suppressed(MinuteOfDay(Some(config.quietHoursStart)),
                                       MinuteOfDay(Some(config.quietHoursEnd))))
        /\ (config.quietHoursStart = << >> /\ config.quietHoursEnd = << >>) =>
               ~Some(quiet)
        /\ (config.quietHoursStart = <<ElevenPm>> /\ config.quietHoursEnd = <<SevenAm>>) =>
               /\ now \in {23 * 60 + 30, 2 * 60, 6 * 60 + 59} => Some(quiet)
               /\ now \in {7 * 60, 12 * 60, 22 * 60 + 59} => ~Some(quiet)

\* With quiet hours 23:00-07:00, the minute 06:59 is suppressed.
C15_Witness ==
    /\ QuietDone
    /\ config.quietHoursStart = <<ElevenPm>>
    /\ config.quietHoursEnd = <<SevenAm>>
    /\ now = 6 * 60 + 59
    /\ Some(quiet)

----------------------------------------------------------------------------
(* Properties of failure handling in the cycle (SpecExec, Spec).           *)

\* The last record of the history file, if it has one.
LastRecord ==
    IF Len(historyFile.records) = 0 THEN << >>
    ELSE <<historyFile.records[Len(historyFile.records)]>>

\* executeTask has returned a failure to the cycle.
ExecutionFailed == result # << >> /\ ~Some(result).success

\* C16: a failure of the execution is never thrown out of the cycle:
\* executeTask returns, with success=false; the next step of the cycle sets
\* the task's status to 'failed' and saves it (the cycle throws there only
\* if that write of the queue file itself fails), and the step after it is
\* the history append, after which the cycle returns.
C16_ExecutionFailureContained ==
    /\ [][cpc = "executing" => (cpc' = "update" /\ result' # << >>)]_vars
    /\ [][(cpc = "update" /\ ExecutionFailed) =>
            /\ Some(task').status = "failed"
            /\ \/ cpc' = "append" /\ FileStatus(Some(task).id)' = <<"failed">>
               \/ cpc' = "thrown" /\ tasksFile' = tasksFile]_vars
    /\ [][(cpc = "append" /\ ExecutionFailed) =>
            /\ cpc' = "done"
            /\ historyFile' # historyFile =>
                   LastRecord' = <<[taskId |-> Some(task).id, success |-> FALSE]>>]_vars

\* A cycle has returned after an execution that failed: the queue file
\* shows the task as failed and the history ends with the failure.
C16_Witness ==
    /\ cpc = "done" /\ ExecutionFailed
    /\ FileStatus(Some(task).id) = <<"failed">>
    /\ LastRecord = <<[taskId |-> Some(task).id, success |-> FALSE]>>

\* C17: when fetchRateLimits returns null (the request threw, the
\* credentials were unusable, or the response status was neither 200 nor
\* 429), the cycle returns with a skip decision in the step that ends the
\* fetch: it loads no queue, selects, transitions and executes no task,
\* writes no file, and does not throw.
C17_FetchFailureSkips ==
    /\ [][(cpc = "fetch" /\ cpc' # "fetch" /\ rateLimits' = << >>) =>
            /\ cpc' = "done"
            /\ ~Some(decision').shouldRun
            /\ Some(decision').reason = "fetch_failed"
            /\ taskData' = << >> /\ task' = << >> /\ result' = << >>
            /\ UNCHANGED <<tasksFile, historyFile, reports, context, execInFlight>>]_vars
    /\ []((decision # << >> /\ Some(decision).reason = "fetch_failed") =>
            /\ cpc = "done"
            /\ task = << >> /\ result = << >> /\ prompt = << >> /\ writes = << >>)

\* The second cycle of a watch loop has returned on a failed fetch, with
\* the queue file still showing a task as on.
C17_Witness ==
    /\ cpc = "done" /\ cycles = 2
    /\ rateLimits = << >>
    /\ Some(decision).reason = "fetch_failed"
    /\ tasksFile.state = "ok"
    /\ \E i \in 1..Len(tasksFile.tasks) : tasksFile.tasks[i].status = "on"

----------------------------------------------------------------------------
(* Properties of the history store (SpecHistory).                          *)

\* The step is the cycle's call of appendRecord.
AppendCalled == cpc = "append" /\ cpc' # "append"

\* C18 as stated: whatever the history file held, a call of appendRecord
\* (on a disk that takes the write) leaves every record the file held
\* where it was and adds exactly one record, the new one, at the end.
C18_Original ==
    [][(AppendCalled /\ ~diskFaults) =>
          historyFile'.records =
              Append(historyFile.records,
                     [taskId |-> Some(task).id, success |-> Some(result).success])]_vars

----------------------------------------------------------------------------
(* Properties of the executor's artifacts (SpecExec).                      *)

\* executeTask has returned in this cycle.
ExecutorReturned == result # << >>

\* The step is the cycle's final status transition (step 6 of runCycle).
FinalTransition == cpc = "update" /\ cpc' # "update"

\* The run-context summary an attempt with this outcome writes in this cycle.
SummaryOf(success) ==
    <<[success |-> success, ts |-> cycles, chars |-> summaryChars(Some(child))]>>

\* C19: whenever executeTask has returned, for a success as for a failure,
\* it has attempted two writes, in this order: the report (the success
\* report after a success, the error report after a failure, and not the
\* other) and the run context; a write that went through has left its
\* artifact on disk; before the executor returns nothing is written, so
\* the final status transition comes after both attempts.
C19_ReportAndContextBeforeReturn ==
    /\ [](ExecutorReturned =>
            LET id == Some(task).id
                success == Some(result).success
            IN /\ Len(writes) = 2
               /\ writes[1].file = (IF success THEN "report" ELSE "error")
               /\ writes[2].file = "context"
               /\ writes[1].written =>
                      <<id, IF success THEN "report" ELSE "error">> \in reports
               /\ writes[2].written => context[id] = SummaryOf(success))
    /\ [](~ExecutorReturned => writes = << >>)
    /\ [][FinalTransition => (ExecutorReturned /\ Len(writes) = 2 /\ writes' = writes)]_vars
    /\ [][(reports' # reports \/ context' # context) =>
            (cpc = "executing" /\ cpc' = "update")]_vars

\* An execution has failed and the cycle has not yet made its final
\* transition: the error report and the failure context are on disk, and
\* the queue file still shows the task as running.
C19_Witness ==
    /\ cpc = "update"
    /\ ExecutorReturned /\ ~Some(result).success
    /\ writes = <<[file |-> "error", written |-> TRUE],
                  [file |-> "context", written |-> TRUE]>>
    /\ <<Some(task).id, "error">> \in reports
    /\ <<Some(task).id, "report">> \notin reports
    /\ context[Some(task).id] = SummaryOf(FALSE)
    /\ FileStatus(Some(task).id) = <<"running">>

----------------------------------------------------------------------------
(* Properties of the watch loop (SpecWatch).                               *)

\* SIGINT or SIGTERM has set the shutdown flag.
ShutdownRequested == mode = "watch" /\ ~running

\* A cycle is in flight: runCycle has been called and has not settled.
CycleInFlight == wpc = "await" /\ cpc \notin {"done", "thrown"}

QuietHoursChecked == wpc = "top" /\ running /\ wpc' # "top"

\* C22: in watch mode every iteration of the loop checks the quiet hours
\* against the clock as it is then, and a cycle is started only outside
\* them; when the time is inside quiet hours the iteration goes to its
\* sleep at once, and until the next check no cycle is started, nothing is
\* fetched, no queue is loaded, no task is selected, no status is changed,
\* no child is spawned and no file is written.
C22_QuietHoursSkipCycle ==
    /\ [][QuietHoursChecked =>
            IF QuietAt(now')
            THEN /\ wpc' = "sleep" /\ cpc' = "idle" /\ cycles' = cycles
                 /\ UNCHANGED <<cycleLocals, execInFlight, files>>
            ELSE CycleStarted /\ wpc' = "await" /\ cpc' = "fetch"]_vars
    /\ [][CycleStarted => (QuietHoursChecked /\ ~QuietAt(now'))]_vars
    /\ [](wpc \in {"top", "sleep"} =>
            /\ cpc = "idle" /\ execInFlight = 0
            /\ rateLimits = << >> /\ decision = << >> /\ taskData = << >>
            /\ task = << >> /\ result = << >>)
    /\ [][wpc = "sleep" =>
            UNCHANGED <<cycles, cpc, cycleLocals, execInFlight, files>>]_vars

\* After a first cycle the loop has found the time inside quiet hours and
\* gone to its sleep, with a task of the queue file still on.
C22_Witness ==
    /\ wpc = "sleep" /\ running /\ cycles = 1
    /\ QuietAt(now)
    /\ cpc = "idle" /\ rateLimits = << >> /\ task = << >>
    /\ \E i \in 1..Len(tasksFile.tasks) : tasksFile.tasks[i].status = "on"

----------------------------------------------------------------------------
(* Properties of a process that is killed and started again (SpecCrash).   *)

\* The step kills the process.
ProcessKilled == wpc # "dead" /\ wpc' = "dead"

\* The ids of the tasks the queue file shows with this status.
ShownAs(status) ==
    IF tasksFile.state # "ok" THEN {}
    ELSE {tasksFile.tasks[i].id : i \in {j \in 1..Len(tasksFile.tasks) :
                                               tasksFile.tasks[j].status = status}}

\* C23: while the executor runs the queue file shows the task as 'running',
\* and a kill of the process leaves the file as it is, so the task stays
\* 'running' on disk; a cycle selects only a task the file shows as 'on',
\* and the executor is invoked only for the task its cycle selected; and
\* the program takes a task out of 'running' only by the final transition
\* of the cycle that executed it: any other change of a 'running' status is
\* made from outside, while no process runs.
C23_CrashLeavesRunning ==
    /\ [](cpc = "executing" => FileStatus(Some(task).id) = <<"running">>)
    /\ [][ProcessKilled =>
            /\ tasksFile' = tasksFile
            /\ cpc = "executing" => Some(task).id \in ShownAs("running")]_vars
    /\ [][(cpc = "select" /\ cpc' # "select" /\ task' # << >>) =>
            Some(task').id \in ShownAs("on")]_vars
    /\ [][(task' # task /\ task' # << >>) =>
            (cpc \in {"select", "mark", "update"} /\ Some(task').id \in ShownAs("on") \cup
                 (IF task = << >> THEN {} ELSE {Some(task).id}))]_vars
    /\ [][ExecutorInvoked => (cpc = "exec" /\ task # << >> /\ task' = task)]_vars
    /\ [][\A id \in ShownAs("running") :
             (tasksFile'.state = "ok" /\ \A i \in 1..Len(tasksFile'.tasks) :
                  tasksFile'.tasks[i].id = id => tasksFile'.tasks[i].status # "running") =>
                \/ wpc = "dead" /\ wpc' = "dead"
                \/ /\ wpc = "await" /\ cpc = "update" /\ result # << >>
                   /\ Some(task).id = id]_vars

\* The process was killed while it executed a task and was started again;
\* its next cycle has decided to run and has returned, with the task still
\* 'running' in the queue file and not selected.
C23_Witness ==
    /\ Len(outside) = 1
    /\ outside[1].what = "kill" /\ outside[1].at = "executing"
    /\ wpc = "await" /\ cpc = "done"
    /\ Some(decision).shouldRun
    /\ Some(outside[1].task).id \in ShownAs("running")
    /\ (task = << >> \/ Some(task).id # Some(outside[1].task).id)

----------------------------------------------------------------------------
(* Properties of updateTaskStatus (SpecUpdate).                            *)

\* The step is a call of updateTaskStatus.
StatusUpdated == mode = "update" /\ cpc = "input" /\ cpc' # "input"

\* The positions of the queue at which the task has the id of the call.
MatchingAt == {i \in 1..Len(taskData) : taskData[i].id = Some(args).taskId}

\* C24: a call of updateTaskStatus returns (it does not throw) and leaves
\* the queue with the same tasks in the same order; the task with the id of
\* the call has the new status and all its other fields as before, every
\* other task is as before; when no task has the id, the queue is as
\* before.
C24_UpdateOnlyStatus ==
    [][StatusUpdated =>
        /\ cpc' = "done"
        /\ Len(taskData') = Len(taskData)
        /\ \A i \in 1..Len(taskData) :
            IF i \in MatchingAt
            THEN /\ taskData'[i].status = Some(args).status
                 /\ taskData'[i] = [taskData[i] EXCEPT !.status = Some(args).status]
                 /\ \A f \in {"id", "prompt", "priority", "maxBudgetUSD", "repeat"} :
                        taskData'[i][f] = taskData[i][f]
            ELSE taskData'[i] = taskData[i]
        /\ MatchingAt = {} => taskData' = taskData
        /\ UNCHANGED <<tasksFile, historyFile, reports, context, task>>]_vars

\* The second of two tasks has gone from 'on' to 'failed'; the first, which
\* is 'on' too, is as it was.
C24_Witness ==
    /\ mode = "update" /\ cpc = "done"
    /\ Some(args) = [taskId |-> 2, status |-> "failed"]
    /\ Len(taskData) = 2
    /\ taskData[1].status = "on" /\ taskData[2].status = "failed"
    /\ taskData[2].repeat /\ taskData[2].priority = <<1>>

----------------------------------------------------------------------------
(* Properties of the cycle beside an operator who edits the queue file     *)
(* (SpecEdit).                                                             *)

\* The queue file no longer shows the task the cycle has selected.
SelectedTaskGone == task # << >> /\ FileStatus(Some(task).id) = << >>

\* C25: when the queue file no longer holds the selected task at the time
\* of the final transition, the transition is made as ever, on the queue
\* the cycle holds in memory, and the write puts that queue, with the task
\* in its final status, in the place of the file; the cycle throws there
\* only if the write itself is rejected, never for the missing task, and
\* it goes on to the history append and returns.
C25_ExternalEditTolerated ==
    /\ [][(FinalTransition /\ SelectedTaskGone) =>
            \/ /\ cpc' = "append" /\ error' = << >>
               /\ tasksFile' = saveTasks(taskData')
               /\ FileStatus(Some(task).id)' = <<NewStatus(Some(task), Some(result))>>
            \/ cpc' = "thrown" /\ error' = <<"write">> /\ tasksFile' = tasksFile]_vars
    /\ [](error # << >> => error = <<"write">>)
    /\ [][cpc = "append" => (cpc' = "done" /\ error' = << >>)]_vars

\* The task was taken out of the queue file while it was executed; the
\* cycle has made its final transition and returned, and the file shows
\* the task again, as done.
C25_Witness ==
    /\ cycles = 1 /\ cpc = "done" /\ result # << >>
    /\ Len(outside) = 1 /\ outside[1].what = "edit"
    /\ Some(outside[1].task).id = Some(task).id
    /\ FileStatus(Some(task).id) = <<"done">>

----------------------------------------------------------------------------
(* Properties of the queue store (SpecLoad).                               *)

\* The step is the cycle's loadTasks and pickTask (step 3 of runCycle).
QueueLoaded == cpc = "select" /\ cpc' # "select"

\* C26 as stated: when the queue file is missing or does not hold a queue
\* document, the cycle takes an empty queue for it and returns there, with
\* no task selected, no file written and nothing thrown.
C26_Original ==
    [][(QueueLoaded /\ tasksFile.state # "ok") =>
          /\ cpc' = "done" /\ error' = << >>
          /\ taskData' = << >> /\ task' = << >>
          /\ UNCHANGED <<tasksFile, historyFile, reports, context>>]_vars

----------------------------------------------------------------------------
(* Properties of failed artifact writes (SpecExec).                        *)

\* The writes of the executor that failed in this cycle.
FailedWrites == {writes[i].file : i \in {j \in 1..Len(writes) : ~writes[j].written}}

\* The step is the cycle's write of the history file, and the write fails.
HistoryWriteFailed == AppendCalled /\ historyFile' = historyFile

\* A failed write does not abort the cycle: the executor returns its
\* result, the final status is saved (the cycle throws there only if the
\* write of the queue file itself fails), the history append follows and
\* the cycle returns.
CycleNotAborted ==
    /\ [][cpc = "executing" => (cpc' = "update" /\ result' # << >>)]_vars
    /\ [][FinalTransition =>
            \/ /\ cpc' = "append" /\ error' = << >>
               /\ FileStatus(Some(task).id)' = <<NewStatus(Some(task), Some(result))>>
            \/ cpc' = "thrown" /\ error' = <<"write">> /\ tasksFile' = tasksFile]_vars
    /\ [][cpc = "append" => (cpc' = "done" /\ error' = << >>)]_vars

\* C27 as stated: every failed write of a report, of the run context or of
\* the history file is logged, and none aborts the cycle.
C27_Original ==
    /\ [](FailedWrites \subseteq warned)
    /\ [][HistoryWriteFailed => "history" \in warned']_vars
    /\ CycleNotAborted

\* C27 as amended: a failed write of the success report, of the run
\* context or of the history file is logged, a failed write of the error
\* report is not; nothing is logged for a write that went through; and no
\* failed write aborts the cycle: the final status is saved and the cycle
\* returns.
C27_WriteFailuresContained ==
    /\ [](FailedWrites \ {"error"} \subseteq warned)
    /\ [](warned \ {"history"} \subseteq FailedWrites \ {"error"})
    /\ [][AppendCalled => ("history" \in warned' <=> HistoryWriteFailed)]_vars
    /\ [](cpc # "done" => "history" \notin warned)
    /\ CycleNotAborted

\* After a failed execution none of the three writes went through: the
\* failures of the context and of the history are logged, that of the
\* error report is not, the queue file shows the task as failed and the
\* cycle has returned.
C27_Witness ==
    /\ cpc = "done" /\ error = << >>
    /\ ExecutionFailed
    /\ FailedWrites = {"error", "context"}
    /\ warned = {"context", "history"}
    /\ historyFile = NoHistory
    /\ FileStatus(Some(task).id) = <<"failed">>

----------------------------------------------------------------------------
(* Properties of the output of the CLI (SpecOutput).                       *)

\* The child has ended with exit code 0 and output that is not JSON.
UnparsedExit0 ==
    child # << >> /\ Some(child).code = 0 /\ Some(child).stdout = "text"

\* The status a task has after a successful run.
StatusAfterSuccess(t) == IF t.repeat THEN "on" ELSE "done"

\* C28: when the CLI exits with code 0 and its output does not parse,
\* executeTask returns success = true, the raw text wrapped as the result
\* and a null cost; the final transition sets the task to done (to on if
\* it repeats), and the queue file never shows it as failed.
C28_UnparsedOutputIsSuccess ==
    /\ [](UnparsedExit0 =>
            result = <<[success |-> TRUE, result |-> "raw", costUSD |-> << >>]>>)
    /\ [][(UnparsedExit0 /\ FinalTransition) =>
            \/ /\ cpc' = "append"
               /\ FileStatus(Some(task).id)' = <<StatusAfterSuccess(Some(task))>>
            \/ cpc' = "thrown" /\ error' = <<"write">> /\ tasksFile' = tasksFile]_vars
    /\ [](UnparsedExit0 => FileStatus(Some(task).id) # <<"failed">>)
    /\ [](UnparsedExit0 /\ cpc \in {"append", "done"} =>
            FileStatus(Some(task).id) = <<StatusAfterSuccess(Some(task))>>)

\* The CLI has printed more text than the wrapper keeps, none of it JSON;
\* the cycle has returned and the one-shot task is done.
C28_Witness ==
    /\ cpc = "done"
    /\ UnparsedExit0
    /\ Some(child).chars > MaxRawChars
    /\ Some(result).success /\ Some(result).costUSD = << >>
    /\ ~Some(task).repeat
    /\ FileStatus(Some(task).id) = <<"done">>

\* C29 as stated: no stored run context is longer than 4000 characters.
C29_Original ==
    \A id \in 1..MaxTasks :
        context[id] # << >> => Some(context[id]).chars <= MaxContextChars

\* C29 as amended: the text taken from a successful result is cut to 4000
\* characters and the error message of a failed one to 1000, and the
\* header line is put in front of the cut text, so a stored context is
\* the header and up to 4000 characters after a success (4052 at most),
\* the header and up to 1000 after a failure, however long the output or
\* the message.
C29_ContextTextTruncated ==
    /\ [](\A id \in 1..MaxTasks :
            context[id] # << >> =>
                Some(context[id]).chars <=
                    IF Some(context[id]).success
                    THEN SuccessHeaderChars + MaxContextChars
                    ELSE FailureHeaderChars + MaxErrorChars)
    /\ [](ExecutorReturned =>
            LET stored == Some(context[Some(task).id])
                given == Some(child).chars
            IN IF Some(result).success
               THEN stored.chars = SuccessHeaderChars + Min(given, MaxContextChars)
               ELSE stored.chars = FailureHeaderChars
                        + (IF given = 0 THEN UnknownChars ELSE Min(given, MaxErrorChars)))

\* The result text of a successful run is longer than 4000 characters, and
\* the context stored for the task is the header and 4000 characters.
C29_Witness ==
    /\ cpc = "done"
    /\ child # << >> /\ Succeeds(Some(child))
    /\ Some(child).chars > MaxContextChars
    /\ Some(context[Some(task).id]).chars = SuccessHeaderChars + MaxContextChars
    /\ Some(context[Some(task).id]).chars > MaxContextChars

----------------------------------------------------------------------------
(* Properties of repeated evaluation (SpecPure).                           *)

\* The step is a second or later call of evaluate with the inputs of the
\* call before.
CalledAgain == mode = "eval" /\ cpc = "done" /\ cycles' = cycles + 1

\* No call of evaluate changes the snapshot or the config.
InputsUntouched == [][rateLimits' = rateLimits /\ config' = config]_vars

\* Two calls with the same snapshot and config agree in every field of the
\* Decision but the reset time named in the reason.
SameApartFromResetTime ==
    [][CalledAgain =>
        decision' = <<[Some(decision) EXCEPT !.resets = Some(decision').resets]>>]_vars

\* C30 as stated: a call of evaluate with the snapshot and the config of
\* the call before returns the Decision of the call before, and no call
\* changes the snapshot or the config.
C30_Original ==
    /\ [][CalledAgain => decision' = decision]_vars
    /\ InputsUntouched

----------------------------------------------------------------------------
(* Properties of the command line of the child (SpecArgs).                 *)

\* The option is set: it is there and is not the empty string.
IsSet(o) == o # << >> /\ Some(o) # ""

\* The task-level value if the task sets one, else the config-level value
\* if the config sets one, else nothing.
Resolved(taskValue, configValue) ==
    IF IsSet(taskValue) THEN taskValue
    ELSE IF IsSet(configValue) THEN configValue ELSE << >>

\* C31: the child is started with the model and the allowed tools of the
\* task where the task sets them, else those of the config, else without
\* them; the permission-bypass flag is passed exactly when yolo resolves
\* to true: the task's yolo if the task has one (true or false), else the
\* config's, else false.
C31_EffectiveOptions ==
    cpc = "executing" =>
        LET t == Some(task)
            e == ExecutionOf(config)
            flags == Some(prompt).flags
            yolo == IF t.yolo # << >> THEN t.yolo
                    ELSE IF e.yolo # << >> THEN e.yolo ELSE <<FALSE>>
        IN /\ flags.model = Resolved(t.model, e.model)
           /\ flags.allowedTools = Resolved(t.allowedTools, e.defaultAllowedTools)
           /\ flags.skipPermissions <=> yolo = <<TRUE>>

\* The task says yolo false and names no model, the config says yolo true
\* and names a model: the child is started with the model of the config
\* and without the permission-bypass flag.
C31_Witness ==
    /\ cpc = "executing"
    /\ Some(task).yolo = <<FALSE>> /\ ExecutionOf(config).yolo = <<TRUE>>
    /\ Some(task).model = << >> /\ ExecutionOf(config).model = <<"sonnet">>
    /\ Some(task).allowedTools = <<"Read">>
    /\ ~Some(prompt).flags.skipPermissions
    /\ Some(prompt).flags.model = <<"sonnet">>
    /\ Some(prompt).flags.allowedTools = <<"Read">>

----------------------------------------------------------------------------
(* Properties of the status dashboard (SpecStatus).                        *)

\* C32: in status mode no step writes the queue file, the history file, a
\* report or a context; no task is selected, no status is changed, no
\* cycle is run and no child is started.
C32_StatusReadOnly ==
    /\ [][UNCHANGED <<tasksFile, historyFile, reports, context>>]_vars
    /\ [](task = << >> /\ result = << >> /\ prompt = << >> /\ writes = << >>)
    /\ [](execInFlight = 0 /\ cpc = "idle" /\ cycles = 0)

\* The dashboard has been rendered with a decision to run and a queue
\* that holds an eligible task, and the process has ended.
C32_Witness ==
    /\ mode = "status" /\ wpc = "exit" /\ error = << >>
    /\ decision # << >> /\ Some(decision).shouldRun
    /\ tasksFile.state = "ok"
    /\ taskData = tasksFile.tasks
    /\ \E i \in 1..Len(taskData) : taskData[i].status = "on"
    /\ historyFile.state = "ok" /\ historyFile.records # << >>

----------------------------------------------------------------------------
(* Properties of the weekly-cost telemetry (SpecTelemetry).                *)

\* The fetch of the weekly cost has failed.
WeeklyCostFailed == "weekly" \in DOMAIN usage /\ usage.weekly = << >>

\* C33 as stated: when the fetch of the weekly cost has failed, the
\* decision of the billing-block evaluate is to skip.
C33_Original ==
    (WeeklyCostFailed /\ cpc = "done") => ~Some(decision).shouldRun

\* After a failed fetch the weekly cost is taken as 0, and the decision is
\* the one for a week in which nothing has been spent.
FailedFetchCountsAsNothingSpent ==
    (WeeklyCostFailed /\ cpc = "done") =>
        /\ usage.weeklyCost = 0
        /\ decision = <<evaluateBilling(usage.block, 0, config)>>

----------------------------------------------------------------------------
(* Properties of the task permissions (SpecPermissions).                   *)

\* C34 as stated: once executeTask has returned, the settings file of the
\* project is as setupTaskPermissions found it: with its original content
\* if it was there, absent if it was not.
C34_Original ==
    ExecutorReturned => permissions.file = Some(permissions.original)

\* cleanupPermissions is called on the path of a success and on that of a
\* failure, and a file that was there before is restored unless the write
\* of the restore is rejected.
RestoredWhereItExisted ==
    (ExecutorReturned /\ Some(permissions.original) = "original" /\ ~diskFaults)
        => permissions.file = "original"

\* A file that was not there before is there after the execution.
ScratchFileStays ==
    (ExecutorReturned /\ Some(permissions.original) = "absent" /\ ~diskFaults)
        => permissions.file = "scratch"

----------------------------------------------------------------------------
(* Properties of a queue over the cycles of a watch loop (SpecWatch).      *)

\* executeTask spawns the child of the selected task.
ExecutionStarts == execInFlight' = execInFlight + 1

\* The report an earlier execution of the task has left: reports/<id>.json
\* of a success, reports/<id>-error.json of a failure.
RanBefore(t, kind) == <<t.id, kind>> \in reports

\* C35: with no edit of the queue file from outside, a task that has failed
\* is never executed again, and a task that is executed again is a
\* repeat=true task whose earlier executions succeeded; so a repeat=false
\* task is executed at most once.
C35_IdempotentExecution ==
    [][ExecutionStarts =>
          /\ ~RanBefore(Some(task), "error")
          /\ RanBefore(Some(task), "report") => Some(task).repeat]_vars

\* A later cycle executes one task while the task that failed in an earlier
\* cycle stays 'failed' in the queue file.
C35_Witness ==
    /\ cycles = MaxCycles
    /\ cpc = "executing"
    /\ outside = << >>
    /\ \E i \in 1..Len(tasksFile.tasks) :
        /\ tasksFile.tasks[i].status = "failed"
        /\ ~tasksFile.tasks[i].repeat
        /\ RanBefore(tasksFile.tasks[i], "error")
        /\ tasksFile.tasks[i].id # Some(task).id

\* A repeat=true task is executed a second time after it succeeded.
RepeatTaskRunsAgain ==
    /\ cpc = "executing"
    /\ Some(task).repeat
    /\ RanBefore(Some(task), "report")

----------------------------------------------------------------------------
(* Properties of the history over whole cycles (SpecRecord).               *)

\* The status the queue file holds for the task of that id.
PersistedStatus(file, id) ==
    LET i == CHOOSE i \in 1..Len(file.tasks) : file.tasks[i].id = id
    IN file.tasks[i].status

\* The step by which a cycle that has executed a task ends: it returns from
\* appendRecord, or it throws after the execution.
ExecutedCycleEnds ==
    /\ cpc \in {"update", "append"}
    /\ cpc' \in {"done", "thrown"}

\* The history file gains one record, that of the task and the result of
\* this cycle, behind the records it held.
GainsTheRecord ==
    historyFile'.records =
        Append(historyFile.records,
               [taskId |-> Some(task).id, success |-> Some(result).success])

\* The success flag of the result against the status the queue file holds.
FlagMatchesStatus ==
    LET st == PersistedStatus(tasksFile, Some(task).id) IN
    /\ Some(result).success <=> st \in {"done", "on"}
    /\ ~Some(result).success <=> st = "failed"

\* C36 as stated: every cycle that has executed a task adds one record to
\* the history, and no other step changes the history.
C36_Original ==
    [][IF ExecutedCycleEnds THEN GainsTheRecord ELSE historyFile' = historyFile]_vars

\* C36: the history changes only in appendRecord of a cycle that has
\* executed a task and written its final status, by one record whose flag
\* is true exactly for a persisted status of done or on and false exactly
\* for failed; and every such cycle that returns without a rejected write
\* of the history has added its record.
C36_OneRecordPerCompletedExecution ==
    [][/\ historyFile' # historyFile =>
            /\ cpc = "append" /\ ExecutorReturned
            /\ GainsTheRecord
            /\ FlagMatchesStatus
       /\ (cpc = "append" /\ cpc' = "done" /\ "history" \notin warned') =>
            GainsTheRecord]_vars

\* A cycle has logged the failure of a task that is 'failed' in the file.
C36_Witness ==
    /\ cpc = "done"
    /\ ExecutorReturned /\ ~Some(result).success
    /\ historyFile.records # << >>
    /\ historyFile.records[Len(historyFile.records)] =
            [taskId |-> Some(task).id, success |-> FALSE]
    /\ PersistedStatus(tasksFile, Some(task).id) = "failed"

\* A dry run that has selected a task returns with no record.
DryRunLeavesNoRecord ==
    /\ dryRun /\ cpc = "done" /\ task # << >>
    /\ historyFile = NoHistory

----------------------------------------------------------------------------
(* Properties of the queue a cycle writes (SpecFrame).                     *)

\* Queue b holds the tasks of queue a in the same order, and differs from
\* it at most in the status of the task of this id.
SameApartFromStatus(a, b, id) ==
    /\ Len(b) = Len(a)
    /\ \A i \in 1..Len(a) :
        /\ b[i] = [a[i] EXCEPT !.status = b[i].status]
        /\ a[i].id # id => b[i] = a[i]

\* The step is a write of the queue file by the cycle.
CycleWritesQueue == tasksFile' # tasksFile /\ outside' = outside

\* C37: the queue a cycle holds is the queue it loaded, task for task and
\* in the order of the file, until it changes the status of the selected
\* task and of no other; what a cycle writes is the whole of that queue,
\* whatever the file holds by then, so that an edit made to the file after
\* the load is overwritten.
C37_QueueFrame ==
    [][/\ (cpc = "select" /\ cpc' # "thrown") => taskData' = loadTasks(tasksFile)
       /\ (cpc \in {"mark", "exec", "executing", "update", "append"}) =>
            SameApartFromStatus(taskData, taskData', Some(task).id)
       /\ CycleWritesQueue =>
            /\ cpc \in {"mark", "update"}
            /\ tasksFile'.state = "ok"
            /\ tasksFile'.tasks = taskData']_vars

\* Of two tasks the second, which has the priority, was selected and
\* executed; the file was deleted meanwhile, and the final write has put
\* both tasks back in their order, the second one done.
C37_Witness ==
    /\ cpc = "append"
    /\ Len(outside) = 1 /\ outside[1].what = "edit"
    /\ Len(tasksFile.tasks) = 2
    /\ tasksFile.tasks[1].id = 1 /\ tasksFile.tasks[1].status = "on"
    /\ tasksFile.tasks[1].priority = << >>
    /\ tasksFile.tasks[2].id = 2 /\ tasksFile.tasks[2].status = "done"
    /\ tasksFile.tasks[2].priority = <<1>>
    /\ Some(task).id = 2

----------------------------------------------------------------------------
(* Properties of the 'running' status (Spec).                              *)

\* The cycle is between its write of 'running' and its write of the final
\* status, or the latter was rejected and the cycle has thrown.
BetweenTheWrites == cpc \in {"exec", "executing", "update", "thrown"}

\* C38: when a cycle has executed a task and goes on to return normally,
\* the queue file holds on, done or failed for the selected task; the file
\* shows the selected task as 'running' only between the write before the
\* execution and the write after it.
C38_NoRunningAfterCycle ==
    /\ (cpc \in {"append", "done"} /\ ExecutorReturned) =>
            \E st \in {"on", "done", "failed"} : FileStatus(Some(task).id) = <<st>>
    /\ (task # << >> /\ FileStatus(Some(task).id) = <<"running">>) =>
            BetweenTheWrites

\* A repeat=true task has succeeded, the cycle has returned, and the task
\* is 'on' again in the file.
C38_Witness ==
    /\ cpc = "done" /\ error = << >>
    /\ ExecutorReturned /\ Some(result).success
    /\ Some(task).repeat
    /\ FileStatus(Some(task).id) = <<"on">>

----------------------------------------------------------------------------
(* Properties of a watch loop that drains its queue (SpecDrain).           *)

\* Every decision of a cycle is 'run'.
AlwaysRun == decision # << >> => Some(decision).shouldRun

\* No cycle has thrown: no write of the queue file was rejected.
NothingThrown == error = << >>

\* The queue file shows no task that is 'on'.
NoOnTask ==
    \A i \in 1..Len(tasksFile.tasks) : tasksFile.tasks[i].status # "on"

\* Every task of the file that is not 'off' has been executed: the
\* executor has left its report.
AllExecuted ==
    \A i \in 1..Len(tasksFile.tasks) :
        \/ tasksFile.tasks[i].status = "off"
        \/ \E kind \in {"report", "error"} : RanBefore(tasksFile.tasks[i], kind)

\* The task being executed has the best priority of the tasks that were
\* eligible: no task that is still 'on' comes before it.
BestPriorityFirst ==
    cpc = "executing" =>
        \A i \in 1..Len(tasksFile.tasks) :
            tasksFile.tasks[i].status = "on" =>
                PriorityOf(Some(task)) <= PriorityOf(tasksFile.tasks[i])

\* The queue is drained for good: every 'on' task has been executed, none
\* is 'on', and no cycle selects a task any more.
Drained == AllExecuted /\ NoOnTask /\ task = << >> /\ execInFlight = 0

----------------------------------------------------------------------------
(* Properties of a watch loop whose cycle throws (SpecWatch).              *)

\* watchLoop resumes from `await runCycle()` after a cycle that has thrown.
ThrowReachesLoop == wpc = "await" /\ cpc = "thrown" /\ wpc' # wpc

\* The sleep loop is left while no signal has come.
SleepEndsUnsignalled == wpc = "sleep" /\ wpc' # wpc /\ running

\* The loop leaves `while (running)` with the flag set.
LoopGoesOn == wpc = "top" /\ wpc' # wpc /\ running

\* C40: in watch mode a cycle that throws takes the loop to its sleep like
\* one that returns, with the flag untouched; the sleep lasts the whole
\* interval unless a signal comes; the loop then starts the next cycle
\* (or skips it for quiet hours), and it ends only with the flag cleared
\* by SIGINT or SIGTERM.
C40_LoopSurvivesThrow ==
    /\ [][ThrowReachesLoop =>
            /\ wpc' = "sleep" /\ sleepLeft' = SleepSlices
            /\ running' = running]_vars
    /\ [][SleepEndsUnsignalled => (sleepLeft = 0 /\ wpc' = "top")]_vars
    /\ [][LoopGoesOn =>
            \/ wpc' = "await" /\ cpc' = "fetch" /\ cycles' = cycles + 1
            \/ wpc' = "sleep" /\ QuietAt(now') /\ cycles' = cycles]_vars
    /\ [](wpc = "stopped" => ~running)

\* The loop has started its next cycle after one that threw on its final
\* write of the queue file and left its task 'running'.
C40_Witness ==
    /\ wpc = "await" /\ cpc = "fetch" /\ cycles > 1
    /\ running
    /\ execInFlight = 0
    /\ \E i \in 1..Len(tasksFile.tasks) : tasksFile.tasks[i].status = "running"

====
